---- MODULE Spec2Model ----
(***************************************************************************)
(* Boolean algebra and Karnaugh map simulator (script.js): the tokenizer,  *)
(* the shunting-yard parser, the RPN evaluator, the Quine-McCluskey        *)
(* minimizer, the Gray-code K-map layout and the handlers of the page's    *)
(* buttons over the application state.                                     *)
(*                                                                         *)
(* JavaScript strings are modelled as sequences of one-character strings,  *)
(* JavaScript arrays as sequences (position p of an array is position p+1  *)
(* of the sequence).                                                       *)
(***************************************************************************)
EXTENDS Integers, Sequences, FiniteSets, TLC

(***************************************************************************)
(* 1. Constants and utilities                                              *)
(***************************************************************************)
GRAY2 == <<0, 1>>
GRAY4 == <<0, 1, 3, 2>>
MAX_VARS == 4

\* The letters the minimizer is called with: the first n of A, B, C, D.
VarLetters == <<"A", "B", "C", "D">>

\* The text JavaScript produces when an undefined value is concatenated.
UndefinedText == <<"u", "n", "d", "e", "f", "i", "n", "e", "d">>

\* The sequence s written out element by element.  (TLC re-evaluates the body of a
\* function constructor at every application; the explicit tuple is evaluated once.)
Tup(s) == SelectSeq(s, LAMBDA x : TRUE)

\* Number.prototype.toString(2): the binary digits of n, at least one digit.
RECURSIVE toString2(_)
toString2(n) ==
  IF n < 2 THEN <<IF n = 0 THEN "0" ELSE "1">>
  ELSE Append(toString2(n \div 2), IF n % 2 = 0 THEN "0" ELSE "1")

\* String.prototype.padStart(width, '0'): pads on the left, never truncates.
padStart(s, width) ==
  IF Len(s) >= width THEN s ELSE Tup([i \in 1..(width - Len(s)) |-> "0"]) \o s

toBin(n, width) == padStart(toString2(n), width)

\* The elements of a finite set of integers in ascending order.
RECURSIVE SortedSeq(_)
SortedSeq(S) ==
  IF S = {} THEN <<>>
  ELSE LET m == CHOOSE x \in S : \A y \in S : x <= y
       IN <<m>> \o SortedSeq(S \ {m})

\* The first occurrence of every element of s, in order (new Set(s)).  A sequence
\* without repetition is its own result.
Uniq(s) ==
  IF Cardinality({s[i] : i \in 1..Len(s)}) = Len(s) THEN s
  ELSE LET first == SelectSeq([i \in 1..Len(s) |-> i],
                              LAMBDA i : \A j \in 1..(i - 1) : s[j] # s[i])
       IN Tup([r \in 1..Len(first) |-> s[first[r]]])

\* The concatenation of a sequence of sequences.
Flatten(ss) ==
  LET F[i \in 0..Len(ss)] == IF i = 0 THEN <<>> ELSE F[i - 1] \o ss[i]
  IN F[Len(ss)]

(***************************************************************************)
(* 2. Tokenizer                                                            *)
(*                                                                         *)
(* A token is a record with every field a JavaScript token may carry; a    *)
(* field the object literal omits (undefined, hence falsy) is FALSE, 0 or   *)
(* the empty string.                                                       *)
(***************************************************************************)
UpperLetters ==
  <<"A", "B", "C", "D", "E", "F", "G", "H", "I", "J", "K", "L", "M",
    "N", "O", "P", "Q", "R", "S", "T", "U", "V", "W", "X", "Y", "Z">>

LowerLetters ==
  <<"a", "b", "c", "d", "e", "f", "g", "h", "i", "j", "k", "l", "m",
    "n", "o", "p", "q", "r", "s", "t", "u", "v", "w", "x", "y", "z">>

\* IsLetter on the upper case letters only.
IsUpperLetter(ch) == \E i \in 1..Len(UpperLetters) : UpperLetters[i] = ch

\* /[A-Za-z]/.test(ch)
IsLetter(ch) ==
  \E i \in 1..Len(UpperLetters) : UpperLetters[i] = ch \/ LowerLetters[i] = ch

\* ch.toUpperCase() of one character.
toUpperCase(ch) ==
  IF \E i \in 1..Len(LowerLetters) : LowerLetters[i] = ch
  THEN UpperLetters[CHOOSE i \in 1..Len(LowerLetters) : LowerLetters[i] = ch]
  ELSE ch

\* The characters the regular expression \s matches, among those the model types.
WhiteSpace == {" ", "\t", "\n"}

\* raw.replace(/\s+/g, '')
StripSpace(raw) == SelectSeq(raw, LAMBDA ch : ch \notin WhiteSpace)

NumTok(n) ==
  [type |-> "NUM", value |-> n, unary |-> FALSE, postfix |-> FALSE,
   precedence |-> 0, associativity |-> "", implicit |-> FALSE]

VarTok(v) ==
  [type |-> "VAR", value |-> v, unary |-> FALSE, postfix |-> FALSE,
   precedence |-> 0, associativity |-> "", implicit |-> FALSE]

LPTok ==
  [type |-> "LP", value |-> "", unary |-> FALSE, postfix |-> FALSE,
   precedence |-> 0, associativity |-> "", implicit |-> FALSE]

RPTok ==
  [type |-> "RP", value |-> "", unary |-> FALSE, postfix |-> FALSE,
   precedence |-> 0, associativity |-> "", implicit |-> FALSE]

PostfixNotTok ==
  [type |-> "OP", value |-> "NOT", unary |-> TRUE, postfix |-> TRUE,
   precedence |-> 4, associativity |-> "right", implicit |-> FALSE]

PrefixNotTok ==
  [type |-> "OP", value |-> "NOT", unary |-> TRUE, postfix |-> FALSE,
   precedence |-> 4, associativity |-> "right", implicit |-> FALSE]

\* The operator of a binary operator character.
BinaryOpOf(ch) ==
  IF ch = "&" \/ ch = "*" THEN "AND"
  ELSE IF ch = "+" \/ ch = "|" THEN "OR"
  ELSE "XOR"

\* BinaryTok with one precedence for the three binary operators.
BinaryTokFlat(op) ==
  [type |-> "OP", value |-> op, unary |-> FALSE, postfix |-> FALSE,
   precedence |-> 3, associativity |-> "left", implicit |-> FALSE]

BinaryTok(op) ==
  [type |-> "OP", value |-> op, unary |-> FALSE, postfix |-> FALSE,
   precedence |-> IF op = "OR" THEN 1 ELSE (IF op = "XOR" THEN 2 ELSE 3),
   associativity |-> "left", implicit |-> FALSE]

\* The number of apostrophes that start at position i of src.
RECURSIVE NegCount(_, _)
NegCount(src, i) ==
  IF i <= Len(src) /\ src[i] = "'" THEN 1 + NegCount(src, i + 1) ELSE 0

\* OddCount taking any apostrophe for a NOT.
OddCountAny(negCount) == negCount >= 1

\* negCount % 2 === 1: an odd number of apostrophes means NOT.
OddCount(negCount) == negCount % 2 = 1

\* The while loop of tokenize from position i (1-based) of the stripped text.
\* The result is the token list, or the error with the 0-based position.
RECURSIVE TokenizeFrom(_, _, _)
TokenizeFrom(src, i, tokens) ==
  IF i > Len(src) THEN [ok |-> TRUE, tokens |-> tokens, pos |-> 0, ch |-> ""]
  ELSE
    LET ch == src[i]
    IN IF ch = "0" \/ ch = "1"
       THEN TokenizeFrom(src, i + 1, Append(tokens, NumTok(IF ch = "0" THEN 0 ELSE 1)))
       ELSE IF IsLetter(ch)
       THEN LET negCount == NegCount(src, i + 1)
            IN TokenizeFrom(src, i + 1 + negCount,
                            IF OddCount(negCount)
                            THEN tokens \o <<VarTok(toUpperCase(ch)), PostfixNotTok>>
                            ELSE Append(tokens, VarTok(toUpperCase(ch))))
       ELSE IF ch = "(" THEN TokenizeFrom(src, i + 1, Append(tokens, LPTok))
       ELSE IF ch = ")" THEN TokenizeFrom(src, i + 1, Append(tokens, RPTok))
       ELSE IF ch = "!" \/ ch = "~"
       THEN TokenizeFrom(src, i + 1, Append(tokens, PrefixNotTok))
       ELSE IF ch \in {"&", "*", "+", "|", "^"}
       THEN TokenizeFrom(src, i + 1, Append(tokens, BinaryTok(BinaryOpOf(ch))))
       ELSE [ok |-> FALSE, tokens |-> <<>>, pos |-> i - 1, ch |-> ch]

tokenize(raw) == TokenizeFrom(StripSpace(raw), 1, <<>>)

(***************************************************************************)
(* 3. Parser (shunting-yard)                                               *)
(***************************************************************************)
\* isOperand without the closing parenthesis.
isOperandNoParen(tok) ==
  \/ tok.type = "VAR"
  \/ tok.type = "NUM"
  \/ (tok.type = "OP" /\ tok.postfix)

isOperand(tok) ==
  \/ tok.type = "VAR"
  \/ tok.type = "NUM"
  \/ tok.type = "RP"
  \/ (tok.type = "OP" /\ tok.postfix)

beginsOperand(tok) ==
  \/ tok.type = "VAR"
  \/ tok.type = "NUM"
  \/ tok.type = "LP"
  \/ (tok.type = "OP" /\ tok.value = "NOT" /\ ~tok.postfix)

ImplicitAndTok ==
  [type |-> "OP", value |-> "AND", unary |-> FALSE, postfix |-> FALSE,
   precedence |-> 3, associativity |-> "left", implicit |-> TRUE]

\* Phase 1 of toRPN: withImplicit.  tokens[i + 1] past the end is undefined,
\* for which beginsOperand is falsy.
InsertImplicit(tokens) ==
  Flatten([i \in 1..Len(tokens) |->
             IF isOperand(tokens[i]) /\ i < Len(tokens) /\ beginsOperand(tokens[i + 1])
             THEN <<tokens[i], ImplicitAndTok>>
             ELSE <<tokens[i]>>])

\* The inner while loop of a binary operator t: pops to the output while the
\* top of the stack is an operator that binds at least as tightly.
RECURSIVE PopOperators(_, _, _)
PopOperators(t, output, stack) ==
  IF stack # <<>>
     /\ stack[Len(stack)].type = "OP"
     /\ \/ stack[Len(stack)].precedence > t.precedence
        \/ (stack[Len(stack)].precedence = t.precedence /\ t.associativity = "left")
  THEN PopOperators(t, Append(output, stack[Len(stack)]), SubSeq(stack, 1, Len(stack) - 1))
  ELSE [output |-> output, stack |-> stack]

\* The while loop of a right parenthesis: pops to the output down to the
\* nearest left parenthesis, which stays on top of the returned stack.
RECURSIVE PopToLeftParen(_, _)
PopToLeftParen(output, stack) ==
  IF stack # <<>> /\ stack[Len(stack)].type # "LP"
  THEN PopToLeftParen(Append(output, stack[Len(stack)]), SubSeq(stack, 1, Len(stack) - 1))
  ELSE [output |-> output, stack |-> stack]

\* IsParen looking for a closing parenthesis only.
IsParenRightOnly(s) == s.type = "RP"

\* s.type === 'LP' || s.type === 'RP'
IsParen(s) == s.type = "LP" \/ s.type = "RP"

\* The closing loop: pops everything, failing at a parenthesis.
RECURSIVE DrainStack(_, _)
DrainStack(output, stack) ==
  IF stack = <<>> THEN [ok |-> TRUE, rpn |-> output, error |-> ""]
  ELSE IF IsParen(stack[Len(stack)])
  THEN [ok |-> FALSE, rpn |-> <<>>, error |-> "unbalanced"]
  ELSE DrainStack(Append(output, stack[Len(stack)]), SubSeq(stack, 1, Len(stack) - 1))

\* Phase 2 of toRPN from position i of withImplicit.
RECURSIVE ShuntingYard(_, _, _, _)
ShuntingYard(w, i, output, stack) ==
  IF i > Len(w) THEN DrainStack(output, stack)
  ELSE
    LET t == w[i]
    IN IF t.type = "VAR" \/ t.type = "NUM"
       THEN ShuntingYard(w, i + 1, Append(output, t), stack)
       ELSE IF t.type = "OP" /\ t.postfix /\ t.value = "NOT"
       THEN ShuntingYard(w, i + 1, Append(output, t), stack)
       ELSE IF t.type = "OP" /\ t.unary /\ ~t.postfix
       THEN ShuntingYard(w, i + 1, output, Append(stack, t))
       ELSE IF t.type = "OP" /\ ~t.unary
       THEN LET popped == PopOperators(t, output, stack)
            IN ShuntingYard(w, i + 1, popped.output, Append(popped.stack, t))
       ELSE IF t.type = "LP"
       THEN ShuntingYard(w, i + 1, output, Append(stack, t))
       ELSE IF t.type = "RP"
       THEN LET popped == PopToLeftParen(output, stack)
            IN IF popped.stack = <<>>
               THEN [ok |-> FALSE, rpn |-> <<>>, error |-> "unmatched"]
               ELSE ShuntingYard(w, i + 1, popped.output,
                                 SubSeq(popped.stack, 1, Len(popped.stack) - 1))
       ELSE ShuntingYard(w, i + 1, output, stack)

toRPN(tokens) == ShuntingYard(InsertImplicit(tokens), 1, <<>>, <<>>)

(***************************************************************************)
(* 4. RPN evaluator                                                        *)
(***************************************************************************)
\* SingleResult accepting values left under the result.
SingleResultOrMore(stack) == Len(stack) >= 1

\* The closing test of evalRPN, stack.length !== 1, negated.
SingleResult(stack) == Len(stack) = 1

\* The for loop of evalRPN from position i, on a stack of booleans.  env is a
\* function from variable letters to 0 or 1.
RECURSIVE EvalFrom(_, _, _, _)
EvalFrom(rpn, env, i, stack) ==
  IF i > Len(rpn)
  THEN IF ~SingleResult(stack)
       THEN [ok |-> FALSE, value |-> 0, error |-> "invalid expression"]
       ELSE [ok |-> TRUE, value |-> IF stack[1] THEN 1 ELSE 0, error |-> ""]
  ELSE
    LET token == rpn[i]
        n == Len(stack)
    IN IF token.type = "NUM"
       THEN EvalFrom(rpn, env, i + 1, Append(stack, token.value # 0))
       ELSE IF token.type = "VAR"
       THEN IF token.value \notin DOMAIN env
            THEN [ok |-> FALSE, value |-> 0, error |-> "undefined variable"]
            ELSE EvalFrom(rpn, env, i + 1, Append(stack, env[token.value] # 0))
       ELSE IF token.type = "OP"
       THEN IF token.value = "NOT"
            THEN IF n < 1
                 THEN [ok |-> FALSE, value |-> 0, error |-> "NOT needs 1 operand"]
                 ELSE EvalFrom(rpn, env, i + 1, Append(SubSeq(stack, 1, n - 1), ~stack[n]))
            ELSE IF n < 2
                 THEN [ok |-> FALSE, value |-> 0, error |-> "operator needs 2 operands"]
                 ELSE LET b == stack[n]
                          a == stack[n - 1]
                          rest == SubSeq(stack, 1, n - 2)
                      IN IF token.value = "AND"
                         THEN EvalFrom(rpn, env, i + 1, Append(rest, a /\ b))
                         ELSE IF token.value = "OR"
                         THEN EvalFrom(rpn, env, i + 1, Append(rest, a \/ b))
                         ELSE IF token.value = "XOR"
                         THEN EvalFrom(rpn, env, i + 1, Append(rest, a # b))
                         ELSE [ok |-> FALSE, value |-> 0, error |-> "unknown operator"]
       ELSE EvalFrom(rpn, env, i + 1, stack)

evalRPN(rpn, env) == EvalFrom(rpn, env, 1, <<>>)

(***************************************************************************)
(* 7. Truth table                                                          *)
(***************************************************************************)
\* extractVars: the letters of the expression in upper case, unique and sorted.
extractVars(expr) ==
  LET found == {toUpperCase(expr[i]) : i \in {j \in 1..Len(expr) : IsLetter(expr[j])}}
      order == SelectSeq([i \in 1..Len(UpperLetters) |-> i],
                         LAMBDA i : UpperLetters[i] \in found)
  IN Tup([k \in 1..Len(order) |-> UpperLetters[order[k]]])

\* RowEnv with the first variable least significant.
RowEnvLsbFirst(varList, m) ==
  [v \in {varList[i] : i \in 1..Len(varList)} |->
     LET i == CHOOSE k \in 1..Len(varList) : varList[k] = v
     IN (m \div (2 ^ (i - 1))) % 2]

\* The environment of row m: variable i (0-based) is bit n - 1 - i of m.
RowEnv(varList, m) ==
  [v \in {varList[i] : i \in 1..Len(varList)} |->
     LET i == CHOOSE k \in 1..Len(varList) : varList[k] = v
     IN (m \div (2 ^ (Len(varList) - i))) % 2]

\* buildTruthTable(vars, rpn) for an rpn that is present.  An error of evalRPN
\* leaves the function at the first failing row.
buildTruthTable(varList, rpn) ==
  LET total == 2 ^ Len(varList)
      rows == Tup([k \in 1..total |->
                     LET r == evalRPN(rpn, RowEnv(varList, k - 1))
                     IN [m |-> k - 1, env |-> RowEnv(varList, k - 1), y |-> r.value,
                         ok |-> r.ok, error |-> r.error]])
      bad == SelectSeq(rows, LAMBDA r : ~r.ok)
  IN IF bad # <<>> THEN [ok |-> FALSE, rows |-> <<>>, error |-> bad[1].error]
     ELSE [ok |-> TRUE,
           rows |-> Tup([k \in 1..total |-> [m |-> rows[k].m, env |-> rows[k].env, y |-> rows[k].y]]),
           error |-> ""]

(***************************************************************************)
(* 5. Quine-McCluskey                                                      *)
(***************************************************************************)
countOnes(binStr) == Cardinality({i \in 1..Len(binStr) : binStr[i] = "1"})

\* canCombine accepting a difference of two bits.
canCombineTwo(a, b) == Cardinality({i \in 1..Len(a) : a[i] # b[i]}) \in {1, 2}

canCombine(a, b) == Cardinality({i \in 1..Len(a) : a[i] # b[i]}) = 1

combine(a, b) == Tup([i \in 1..Len(a) |-> IF a[i] = b[i] THEN a[i] ELSE "-"])

covers(implicant, mintermBin) ==
  \A i \in 1..Len(implicant) :
    implicant[i] = "-" \/ implicant[i] = mintermBin[i]

\* Phase 1 of qmSimplify: the table of groups.  The list under key k (a number
\* of ones) is element k + 1; a key is present in the JavaScript object exactly
\* when its list is not empty.
GroupByOnes(items, width) ==
  Tup([kk \in 1..(width + 1) |->
         SelectSeq(items,
                   LAMBDA it : countOnes(SelectSeq(it.bin, LAMBDA ch : ch # "-")) = kk - 1)])

InitialGroups(bins) ==
  GroupByOnes(Tup([i \in 1..Len(bins) |->
                     [bin |-> bins[i], used |-> FALSE, from |-> <<bins[i]>>]]),
              Len(bins[1]))

\* Object.keys(groups).map(Number).sort((a, b) => a - b), as positions k + 1.
GroupKeys(groups) == SelectSeq([kk \in 1..Len(groups) |-> kk], LAMBDA kk : groups[kk] # <<>>)

\* The items built from one pair of groups, in the order of the two nested loops.
CombinePair(g1, g2) ==
  LET n2 == Len(g2)
      pairs == [p \in 1..(Len(g1) * n2) |-> <<((p - 1) \div n2) + 1, ((p - 1) % n2) + 1>>]
      hits == SelectSeq(pairs, LAMBDA pr : canCombine(g1[pr[1]].bin, g2[pr[2]].bin))
  IN Tup([h \in 1..Len(hits) |->
            [bin |-> combine(g1[hits[h][1]].bin, g2[hits[h][2]].bin),
             used |-> FALSE,
             from |-> Uniq(g1[hits[h][1]].from \o g2[hits[h][2]].from)]])

\* All items pushed in one pass over the neighbouring keys.
CombineAll(groups) ==
  LET keys == GroupKeys(groups)
  IN Flatten([idx \in 1..(Len(keys) - 1) |->
                CombinePair(groups[keys[idx]], groups[keys[idx + 1]])])

\* MarkUsed setting no flag.
MarkUsedNone(groups) == groups

\* The groups after the pass, with the used flags the pass has set.
MarkUsed(groups) ==
  LET keys == GroupKeys(groups)
      partner(idx, it) ==
        \/ /\ idx < Len(keys)
           /\ \E j \in 1..Len(groups[keys[idx + 1]]) :
                canCombine(it.bin, groups[keys[idx + 1]][j].bin)
        \/ /\ idx > 1
           /\ \E j \in 1..Len(groups[keys[idx - 1]]) :
                canCombine(groups[keys[idx - 1]][j].bin, it.bin)
      pos(kk) == CHOOSE idx \in 1..Len(keys) : keys[idx] = kk
  IN Tup([kk \in 1..Len(groups) |->
            Tup([i \in 1..Len(groups[kk]) |->
                   [groups[kk][i] EXCEPT !.used = @ \/ partner(pos(kk), groups[kk][i])]])])

\* Deduplication of one new group: one item per key bin + '|' + from.join(','),
\* the first with that key.  A group without two equal keys is its own result.
Dedup(items) ==
  LET keys == Tup([i \in 1..Len(items) |-> <<items[i].bin, items[i].from>>])
      first == SelectSeq([i \in 1..Len(items) |-> i],
                         LAMBDA i : \A j \in 1..(i - 1) : keys[j] # keys[i])
  IN IF Cardinality({keys[i] : i \in 1..Len(items)}) = Len(items) THEN items
     ELSE Tup([r \in 1..Len(first) |-> items[first[r]]])

DedupGroups(newGroups) == Tup([kk \in 1..Len(newGroups) |-> Dedup(newGroups[kk])])

\* The bins of the items of the groups that satisfy keep, keys ascending.
BinsOf(groups, keep(_)) ==
  Flatten([kk \in 1..Len(groups) |->
             LET sel == SelectSeq(groups[kk], keep)
             IN Tup([i \in 1..Len(sel) |-> sel[i].bin])])

\* Phase 2: the while (anyCombined) loop.  levels is allCombinedLevels, rounds
\* records the deduplicated newGroups of every pass.
RECURSIVE CombineLoop(_, _, _, _)
CombineLoop(groups, width, levels, rounds) ==
  LET created == CombineAll(groups)
      anyCombined == created # <<>>
      newGroups == DedupGroups(GroupByOnes(created, width))
      primes == BinsOf(MarkUsed(groups), LAMBDA it : ~it.used)
  IN IF anyCombined
     THEN CombineLoop(newGroups, width, Append(levels, primes), Append(rounds, newGroups))
     ELSE [levels |-> Append(levels, primes), rounds |-> Append(rounds, newGroups),
           groups |-> newGroups]

\* Phase 3: the prime implicant list.
PrimeList(loop) ==
  Uniq(Flatten(loop.levels) \o BinsOf(loop.groups, LAMBDA it : TRUE))

\* Phase 4: cover[i] as the ascending list of the primes covering minterm i.
CoverChart(primeList, minBin) ==
  Tup([i \in 1..Len(minBin) |->
         SelectSeq([j \in 1..Len(primeList) |-> j],
                   LAMBDA j : covers(primeList[j], minBin[i]))])

\* Essential keeping a list instead of a set: one entry per minterm with a
\* single cover.
EssentialList(cover) ==
  LET ones == SelectSeq(cover, LAMBDA c : Len(c) = 1)
  IN Tup([i \in 1..Len(ones) |-> ones[i][1]])

\* Essential choosing the first prime implicant whatever the chart holds.
EssentialFirst(cover) == <<1>>

\* Phase 5: the essential prime implicants, in insertion order of the Set.
Essential(cover) ==
  LET ones == SelectSeq(cover, LAMBDA c : Len(c) = 1)
  IN Uniq(Tup([i \in 1..Len(ones) |-> ones[i][1]]))

\* markCovered: the rows with a chosen implicant in their cover list.
CoveredRows(cover, chosen) ==
  {i \in 1..Len(cover) :
     \E p \in 1..Len(cover[i]) : \E q \in 1..Len(chosen) : cover[i][p] = chosen[q]}

\* The count of one candidate in the greedy loop.
CoverCount(cover, covered, j) ==
  Cardinality({i \in 1..Len(cover) :
                 i \notin covered /\ \E p \in 1..Len(cover[i]) : cover[i][p] = j})

\* BestJ taking the last candidate with the largest count.
BestJLast(cover, chosen, nPrimes) ==
  LET covered == CoveredRows(cover, chosen)
      cand == {j \in 1..nPrimes : \A q \in 1..Len(chosen) : chosen[q] # j}
      count == Tup([j \in 1..nPrimes |-> CoverCount(cover, covered, j)])
  IN IF cand = {} THEN 0
     ELSE CHOOSE j \in cand :
            /\ \A j2 \in cand : count[j2] <= count[j]
            /\ \A j2 \in cand : count[j2] = count[j] => j2 <= j

\* bestJ of one greedy pass: the first candidate with the largest count, 0 if none.
BestJ(cover, chosen, nPrimes) ==
  LET covered == CoveredRows(cover, chosen)
      cand == {j \in 1..nPrimes : \A q \in 1..Len(chosen) : chosen[q] # j}
      count == Tup([j \in 1..nPrimes |-> CoverCount(cover, covered, j)])
  IN IF cand = {} THEN 0
     ELSE CHOOSE j \in cand :
            /\ \A j2 \in cand : count[j2] <= count[j]
            /\ \A j2 \in cand : count[j2] = count[j] => j <= j2

\* Greedy as a single pass that forgets the essential prime implicants.
GreedyOnePass(cover, chosen, nPrimes) ==
  IF BestJ(cover, <<>>, nPrimes) = 0 THEN <<>> ELSE <<BestJ(cover, <<>>, nPrimes)>>

\* Phase 6: the greedy loop.
RECURSIVE Greedy(_, _, _)
Greedy(cover, chosen, nPrimes) ==
  IF Cardinality(CoveredRows(cover, chosen)) < Len(cover)
  THEN LET bestJ == BestJ(cover, chosen, nPrimes)
       IN IF bestJ = 0 THEN chosen ELSE Greedy(cover, Append(chosen, bestJ), nPrimes)
  ELSE chosen

implicantsToSOP(impls, varNames) ==
  IF impls = <<>> THEN <<"0">>
  ELSE LET lit(mask, i) ==
             IF mask[i] = "-" THEN <<>>
             ELSE LET v == IF i <= Len(varNames) THEN <<varNames[i]>> ELSE UndefinedText
                  IN IF mask[i] = "1" THEN v ELSE v \o <<"'">>
           part(mask) ==
             LET s == Flatten([i \in 1..Len(mask) |-> lit(mask, i)])
             IN IF s = <<>> THEN <<"1">> ELSE s
           F[k \in 1..Len(impls)] ==
             IF k = 1 THEN part(impls[1])
             ELSE F[k - 1] \o <<" ", "+", " ">> \o part(impls[k])
       IN F[Len(impls)]

implicantsToPOS(impls, varNames) ==
  IF impls = <<>> THEN <<"1">>
  ELSE LET lit(mask, i) ==
             IF mask[i] = "-" THEN <<>>
             ELSE LET v == IF i <= Len(varNames) THEN <<varNames[i]>> ELSE UndefinedText
                  IN IF mask[i] = "0" THEN v ELSE v \o <<"'">>
           sum(mask) ==
             LET G[i \in 0..Len(mask)] ==
                   IF i = 0 THEN <<>>
                   ELSE IF mask[i] = "-" THEN G[i - 1]
                   ELSE (IF G[i - 1] # <<>> THEN G[i - 1] \o <<" ", "+", " ">> ELSE <<>>)
                        \o lit(mask, i)
             IN G[Len(mask)]
           part(mask) ==
             IF sum(mask) # <<>> THEN <<"(">> \o sum(mask) \o <<")">> ELSE <<"1">>
       IN Flatten([k \in 1..Len(impls) |-> part(impls[k])])

qmSimplify(minterms, dontcares, varNames, mode) ==
  LET allTerms == minterms \o dontcares
  IN IF allTerms = <<>>
     THEN [implicants |-> <<>>, result |-> IF mode = "SOP" THEN <<"0">> ELSE <<"1">>,
           primeList |-> <<>>, rounds |-> <<>>]
     ELSE
       LET W == Len(varNames)
           bins == Tup([i \in 1..Len(allTerms) |-> toBin(allTerms[i], W)])
           loop == CombineLoop(InitialGroups(bins), Len(bins[1]), <<>>, <<>>)
           primeList == PrimeList(loop)
           minBin == Tup([i \in 1..Len(minterms) |-> toBin(minterms[i], W)])
           cover == CoverChart(primeList, minBin)
           chosen == Greedy(cover, Essential(cover), Len(primeList))
           implicants == Tup([q \in 1..Len(chosen) |-> primeList[chosen[q]]])
       IN [implicants |-> implicants,
           result |-> IF mode = "SOP" THEN implicantsToSOP(implicants, varNames)
                      ELSE implicantsToPOS(implicants, varNames),
           primeList |-> primeList, rounds |-> loop.rounds]

(***************************************************************************)
(* 6. K-map layout                                                         *)
(***************************************************************************)
\* The bitwise operators of JavaScript on non-negative integers.
RECURSIVE BitOr(_, _)
BitOr(a, b) ==
  IF a = 0 THEN b
  ELSE IF b = 0 THEN a
  ELSE (IF a % 2 = 1 \/ b % 2 = 1 THEN 1 ELSE 0) + 2 * BitOr(a \div 2, b \div 2)

RECURSIVE BitAnd(_, _)
BitAnd(a, b) ==
  IF a = 0 \/ b = 0 THEN 0
  ELSE (IF a % 2 = 1 /\ b % 2 = 1 THEN 1 ELSE 0) + 2 * BitAnd(a \div 2, b \div 2)

ShiftLeft(a, k) == a * 2 ^ k

ShiftRight(a, k) == a \div 2 ^ k

\* layout.index({r, c}) of the layout of one variable.
Index1(r, c) == GRAY2[r + 1]

\* layout.index({r, c}) of the layout of two variables.
Index2(r, c) ==
  LET A == GRAY2[r + 1]
      B == GRAY2[c + 1]
  IN BitOr(ShiftLeft(A, 1), B)

\* Index3 with the last bit taken from B.
Index3Repeat(r, c) ==
  LET A == GRAY2[r + 1]
      BC == GRAY4[c + 1]
      B == BitAnd(ShiftRight(BC, 1), 1)
  IN BitOr(BitOr(ShiftLeft(A, 2), ShiftLeft(B, 1)), B)

\* layout.index({r, c}) of the layout of three variables.
Index3(r, c) ==
  LET A == GRAY2[r + 1]
      BC == GRAY4[c + 1]
      B == BitAnd(ShiftRight(BC, 1), 1)
      C == BitAnd(BC, 1)
  IN BitOr(BitOr(ShiftLeft(A, 2), ShiftLeft(B, 1)), C)

\* Index4 reading the rows in binary order.
Index4Binary(r, c) ==
  LET CD == GRAY4[c + 1]
      A == BitAnd(ShiftRight(r, 1), 1)
      B == BitAnd(r, 1)
      C == BitAnd(ShiftRight(CD, 1), 1)
      D == BitAnd(CD, 1)
  IN BitOr(BitOr(BitOr(ShiftLeft(A, 3), ShiftLeft(B, 2)), ShiftLeft(C, 1)), D)

\* layout.index({r, c}) of the layout of four variables.
Index4(r, c) ==
  LET AB == GRAY4[r + 1]
      CD == GRAY4[c + 1]
      A == BitAnd(ShiftRight(AB, 1), 1)
      B == BitAnd(AB, 1)
      C == BitAnd(ShiftRight(CD, 1), 1)
      D == BitAnd(CD, 1)
  IN BitOr(BitOr(BitOr(ShiftLeft(A, 3), ShiftLeft(B, 2)), ShiftLeft(C, 1)), D)

\* The positions {r, c} of a layout of R rows and C columns, 0-based.
Positions(R, C) == (0..(R - 1)) \X (0..(C - 1))

\* null, as a layout.
NoLayout ==
  [present |-> FALSE, rows |-> <<>>, cols |-> <<>>, rowVars |-> <<>>, colVars |-> <<>>,
   index |-> <<>>]

\* kmapLayoutForVars giving the layout of two variables whatever the count.
kmapLayoutAlways(nVars) ==
  [present |-> TRUE, rows |-> GRAY2, cols |-> GRAY2,
   rowVars |-> <<"A">>, colVars |-> <<"B">>,
   index |-> [p \in Positions(Len(GRAY2), Len(GRAY2)) |-> Index2(p[1], p[2])]]

\* kmapLayoutForVars(nVars); the method index is its table over the positions.
kmapLayoutForVars(nVars) ==
  IF nVars = 1
  THEN [present |-> TRUE, rows |-> <<0, 1>>, cols |-> <<0>>,
        rowVars |-> <<"A">>, colVars |-> <<>>,
        index |-> [p \in Positions(2, 1) |-> Index1(p[1], p[2])]]
  ELSE IF nVars = 2
  THEN [present |-> TRUE, rows |-> GRAY2, cols |-> GRAY2,
        rowVars |-> <<"A">>, colVars |-> <<"B">>,
        index |-> [p \in Positions(Len(GRAY2), Len(GRAY2)) |-> Index2(p[1], p[2])]]
  ELSE IF nVars = 3
  THEN [present |-> TRUE, rows |-> GRAY2, cols |-> GRAY4,
        rowVars |-> <<"A">>, colVars |-> <<"B", "C">>,
        index |-> [p \in Positions(Len(GRAY2), Len(GRAY4)) |-> Index3(p[1], p[2])]]
  ELSE IF nVars = 4
  THEN [present |-> TRUE, rows |-> GRAY4, cols |-> GRAY4,
        rowVars |-> <<"A", "B">>, colVars |-> <<"C", "D">>,
        index |-> [p \in Positions(Len(GRAY4), Len(GRAY4)) |-> Index4(p[1], p[2])]]
  ELSE NoLayout

(***************************************************************************)
(* 8. The application: the K-map and the handlers' helpers                 *)
(***************************************************************************)
MAX_TRUTH_TABLE_VARS == 8

\* The result field els.outSimplified.  Its text is either written as such or is
\* the result of a call of qmSimplify; for a call the field records the
\* arguments, and TextOf gives the text.
OutText(text) ==
  [kind |-> "text", text |-> text, minterms |-> <<>>, dontcares |-> <<>>,
   vars |-> <<>>, mode |-> ""]

OutQm(minterms, dontcares, varNames, mode) ==
  [kind |-> "qm", text |-> <<>>, minterms |-> minterms, dontcares |-> dontcares,
   vars |-> varNames, mode |-> mode]

\* els.outSimplified.textContent
TextOf(out) ==
  IF out.kind = "qm"
  THEN qmSimplify(out.minterms, out.dontcares, out.vars, out.mode).result
  ELSE out.text

\* The result field before any result, and for more than MAX_VARS variables.
NoResultText == OutText(<<"_">>)

TooManyVarsText == OutText(<<"_", "4">>)

Min(a, b) == IF a <= b THEN a ELSE b

\* initKMap(vars): the new currentKMap and the cells of the K-map element, each
\* cell with the index its click handler closes over, in row-major order.
initKMap(varList) ==
  LET n == Min(Len(varList), MAX_VARS)
      layout == kmapLayoutForVars(n)
      total == ShiftLeft(1, n)
      cols == Len(layout.cols)
      count == Len(layout.rows) * cols
  IN [kmap |-> [vars |-> SubSeq(varList, 1, n), n |-> n, layout |-> layout,
                cells |-> [i \in 0..(total - 1) |-> "0"], total |-> total],
      dom |-> IF layout.present
              THEN Tup([k \in 1..count |-> layout.index[<<(k - 1) \div cols, (k - 1) % cols>>]])
              ELSE <<>>]

\* paintKMapFromData without the range tests on the indices: an index of the
\* lists that is not a cell becomes an entry of the cell array.
paintKMapUnchecked(kmap, minterms, dontcares) ==
  IF ~kmap.layout.present THEN kmap
  ELSE [kmap EXCEPT !.cells =
          [i \in (0..(kmap.total - 1))
                   \cup {minterms[k] : k \in 1..Len(minterms)}
                   \cup {dontcares[k] : k \in 1..Len(dontcares)} |->
             IF \E k \in 1..Len(dontcares) : dontcares[k] = i THEN "d"
             ELSE IF \E k \in 1..Len(minterms) : minterms[k] = i THEN "1"
             ELSE "0"]]

\* paintKMapFromData(minterms, dontcares) on the K-map kmap.
paintKMapFromData(kmap, minterms, dontcares) ==
  IF ~kmap.layout.present THEN kmap
  ELSE [kmap EXCEPT !.cells =
          [i \in 0..(kmap.total - 1) |->
             IF \E k \in 1..Len(dontcares) : dontcares[k] = i THEN "d"
             ELSE IF \E k \in 1..Len(minterms) : minterms[k] = i THEN "1"
             ELSE "0"]]

collectDataFromKMap(kmap) ==
  [minterms |-> SortedSeq({i \in 0..(kmap.total - 1) : kmap.cells[i] = "1"}),
   dontcares |-> SortedSeq({i \in 0..(kmap.total - 1) : kmap.cells[i] = "d"})]

\* simplifyFromKMap(): what it writes to the result field.
simplifyFromKMap(kmap, mode) ==
  IF kmap.n = 0 THEN OutText(IF kmap.cells[0] = "1" THEN <<"1">> ELSE <<"0">>)
  ELSE
    LET data == collectDataFromKMap(kmap)
        onAndDC == {i \in 0..(kmap.total - 1) : kmap.cells[i] # "0"}
        effectiveMinterms ==
          IF mode = "POS" THEN SortedSeq((0..(kmap.total - 1)) \ onAndDC)
          ELSE data.minterms
    IN OutQm(effectiveMinterms, data.dontcares, kmap.vars, mode)

\* String.prototype.trim()
trim(text) ==
  LET solid == {i \in 1..Len(text) : text[i] \notin WhiteSpace}
  IN IF solid = {} THEN <<>>
     ELSE SubSeq(text, CHOOSE i \in solid : \A j \in solid : i <= j,
                       CHOOSE i \in solid : \A j \in solid : j <= i)

Digits == <<"0", "1", "2", "3", "4", "5", "6", "7", "8", "9">>

IsDigit(ch) == \E i \in 1..Len(Digits) : Digits[i] = ch

DigitValue(ch) == (CHOOSE i \in 1..Len(Digits) : Digits[i] = ch) - 1

RECURSIVE DecimalValue(_)
DecimalValue(ds) ==
  IF ds = <<>> THEN 0
  ELSE 10 * DecimalValue(SubSeq(ds, 1, Len(ds) - 1)) + DigitValue(ds[Len(ds)])

\* Number(piece) of a piece made of digits, '+', letters and parentheses: the
\* value of an optionally signed run of digits, -1 for NaN.
ToNumber(piece) ==
  LET body == IF piece[1] = "+" THEN Tail(piece) ELSE piece
  IN IF body # <<>> /\ \A i \in 1..Len(body) : IsDigit(body[i])
     THEN DecimalValue(body)
     ELSE -1

\* A character the regular expression /[,\s]+/ matches.
IsSeparator(ch) == ch = "," \/ ch \in WhiteSpace

\* text.split(/[,\s]+/).map(trim).filter(Boolean).map(Number)
\*     .filter(n => Number.isInteger(n) && n >= 0)
TermNumbers(text) ==
  LET starts == SelectSeq([i \in 1..Len(text) |-> i],
                  LAMBDA i : ~IsSeparator(text[i]) /\ (i = 1 \/ IsSeparator(text[i - 1])))
      end(i) == CHOOSE j \in i..Len(text) :
                  /\ \A k \in i..j : ~IsSeparator(text[k])
                  /\ j = Len(text) \/ IsSeparator(text[j + 1])
      numbers == Tup([k \in 1..Len(starts) |-> ToNumber(SubSeq(text, starts[k], end(starts[k])))])
  IN SelectSeq(numbers, LAMBDA n : n >= 0)

\* The first position at or after i that holds no white space.
RECURSIVE SkipSpace(_, _)
SkipSpace(text, i) ==
  IF i <= Len(text) /\ text[i] \in WhiteSpace THEN SkipSpace(text, i + 1) ELSE i

\* A match of /\+\s*d\s*\(([^)]+)\)/i starting at position p: where its group
\* starts and ends, or no match.
DcMatchAt(text, p) ==
  LET d == SkipSpace(text, p + 1)
      open == SkipSpace(text, d + 1)
      closes == {e \in (open + 1)..Len(text) : text[e] = ")"}
      close == CHOOSE e \in closes : \A f \in closes : e <= f
  IN IF /\ text[p] = "+"
        /\ d <= Len(text) /\ text[d] \in {"d", "D"}
        /\ open <= Len(text) /\ text[open] = "("
        /\ closes # {}
        /\ close >= open + 2
     THEN [found |-> TRUE, index |-> p, from |-> open + 1, to |-> close - 1]
     ELSE [found |-> FALSE, index |-> 0, from |-> 0, to |-> 0]

parseTermInput(input) ==
  LET hits == {p \in 1..Len(input) : DcMatchAt(input, p).found}
      dcMatch == DcMatchAt(input, CHOOSE p \in hits : \A q \in hits : p <= q)
  IN IF hits = {}
     THEN [minterms |-> TermNumbers(input), dontcares |-> <<>>]
     ELSE [minterms |-> TermNumbers(SubSeq(input, 1, dcMatch.index - 1)),
           dontcares |-> TermNumbers(SubSeq(input, dcMatch.from, dcMatch.to))]

(***************************************************************************)
(* The minimizer as a state machine: the inputs of one call, then its      *)
(* result.                                                                 *)
(***************************************************************************)
\* The minimizer: the arguments of one call of qmSimplify and what it returned.
VARIABLES qmVars, qmMinterms, qmDontcares, qmMode, qmOut

\* The parsing pipeline: the text typed, the results of tokenize, of phase 1 of
\* toRPN, of toRPN, the environment and result of one evalRPN call, the result
\* of buildTruthTable, and how far the pipeline has run.
VARIABLES pSrc, pLex, pWith, pParse, pEnv, pEval, pRows, pStage

qmState == <<qmVars, qmMinterms, qmDontcares, qmMode, qmOut>>

pState == <<pSrc, pLex, pWith, pParse, pEnv, pEval, pRows, pStage>>

\* The application: the module variables currentVars, currentRPN (empty for
\* null), currentKMap and currentMode, the result field, the cells
\* of the K-map element, the kind of message shown (none, "error" or "success").
\* The text fields are inputs of the handlers that read them; the pills, the
\* statistics and the benchmark panel are display only and left out.
VARIABLES currentVars, currentRPN, currentKMap, currentMode, outSimplified,
          kmapCells, message

appState == <<currentVars, currentRPN, currentKMap, currentMode, outSimplified,
              kmapCells, message>>

\* A call of kmapLayoutForVars on its own: the argument and what it returned.
VARIABLES layoutVars, layoutOut

layoutState == <<layoutVars, layoutOut>>

vars == <<qmState, pState, appState, layoutState>>

\* The application after init(): initKMap([]) on the declared module state.
AppIdle ==
  /\ currentVars = <<>>
  /\ currentRPN = <<>>
  /\ currentKMap = initKMap(<<>>).kmap
  /\ currentMode = "SOP"
  /\ outSimplified = NoResultText
  /\ kmapCells = initKMap(<<>>).dom
  /\ message = ""

\* kmapLayoutForVars has not been called on its own.
NoLayoutCall == [done |-> FALSE, layout |-> NoLayout]

LayoutIdle ==
  /\ layoutVars = 0
  /\ layoutOut = NoLayoutCall

\* qmOut before the call has returned.
NoResult == [implicants |-> <<>>, result |-> <<>>, primeList |-> <<>>, rounds |-> <<>>,
             done |-> FALSE]

\* With MAX_VARS variables and don't-cares present, at most this many cells are
\* minterms or don't-cares.  Every other input is enumerated in full.
MaxTerms4 == 3

\* The calls without don't-cares: every variable count up to MAX_VARS, every
\* minterm set, ascending as collectDataFromKMap and the Evaluate handler pass it.
QmInitPlain ==
  \E n \in 0..MAX_VARS : \E M \in SUBSET (0..(2^n - 1)) :
    /\ qmVars = SubSeq(VarLetters, 1, n)
    /\ qmMinterms = SortedSeq(M)
    /\ qmDontcares = <<>>

\* The calls with don't-cares: disjoint minterm and don't-care sets, the empty
\* variable list with its one index among them.
QmInitDontCares ==
  \E n \in 0..MAX_VARS : \E S \in SUBSET (0..(2^n - 1)) :
    /\ n = MAX_VARS => Cardinality(S) <= MaxTerms4
    /\ \E D \in SUBSET S :
         /\ D # {}
         /\ qmVars = SubSeq(VarLetters, 1, n)
         /\ qmMinterms = SortedSeq(S \ D)
         /\ qmDontcares = SortedSeq(D)

\* No call of the minimizer is in progress.
QmIdle ==
  /\ qmVars = <<>>
  /\ qmMinterms = <<>>
  /\ qmDontcares = <<>>
  /\ qmMode = "SOP"
  /\ qmOut = NoResult

NoLex == [ok |-> FALSE, tokens |-> <<>>, pos |-> 0, ch |-> ""]

NoParse == [ok |-> FALSE, rpn |-> <<>>, error |-> ""]

NoEval == [ok |-> FALSE, value |-> 0, error |-> ""]

NoRows == [ok |-> FALSE, rows |-> <<>>, error |-> ""]

\* The pipeline has not been started.
ParseIdle ==
  /\ pSrc = <<>>
  /\ pLex = NoLex
  /\ pWith = <<>>
  /\ pParse = NoParse
  /\ pEnv = <<>>
  /\ pEval = NoEval
  /\ pRows = NoRows
  /\ pStage = "idle"

QmInit ==
  /\ QmInitDontCares \/ QmInitPlain
  /\ qmMode \in {"SOP", "POS"}
  /\ qmOut = NoResult
  /\ ParseIdle
  /\ AppIdle
  /\ LayoutIdle

QmRun ==
  /\ ~qmOut.done
  /\ qmOut' = [done |-> TRUE] @@ qmSimplify(qmMinterms, qmDontcares, qmVars, qmMode)
  /\ UNCHANGED <<qmVars, qmMinterms, qmDontcares, qmMode>>
  /\ UNCHANGED <<pState, appState, layoutState>>

QmNext == QmRun

SpecQM == QmInit /\ [][QmNext]_vars

(***************************************************************************)
(* The parsing pipeline as a state machine: an expression is typed one     *)
(* character at a time, then tokenize, toRPN and buildTruthTable run on it. *)
(***************************************************************************)
\* The longest expression typed.
MaxExprLen == 6

\* The characters typed: a constant, a variable, prefix and postfix NOT, the
\* three binary operators and the parentheses.
ExprChars == {"1", "A", "!", "'", "&", "+", "^", "(", ")"}

StartsOperandChar(c) == c \in {"0", "1", "(", "!", "~"} \/ IsLetter(c)

EndsOperandChar(c) == c \in {"0", "1", ")", "'"} \/ IsLetter(c)

BinaryChar(c) == c \in {"&", "*", "+", "|", "^"}

\* Character c may follow character p in an infix expression.
CanFollow(p, c) ==
  IF c = "'" THEN IsLetter(p) \/ p = "'"
  ELSE IF StartsOperandChar(c) THEN TRUE
  ELSE IF BinaryChar(c) \/ c = ")" THEN EndsOperandChar(p)
  ELSE FALSE

\* The number of parentheses open after text.
Depth(text) ==
  Cardinality({i \in 1..Len(text) : text[i] = "("})
    - Cardinality({i \in 1..Len(text) : text[i] = ")"})

\* text can be continued to a well-formed expression.
ViablePrefix(text) ==
  /\ text # <<>> => StartsOperandChar(text[1])
  /\ \A i \in 1..(Len(text) - 1) : CanFollow(text[i], text[i + 1])
  /\ \A i \in 1..Len(text) : Depth(SubSeq(text, 1, i)) >= 0

\* text is a well-formed infix expression: operands 0, 1 and letters with
\* apostrophes, prefix NOT, explicit and implicit binary operators, parentheses.
WellFormed(text) ==
  /\ text # <<>>
  /\ ViablePrefix(text)
  /\ EndsOperandChar(text[Len(text)])
  /\ Depth(text) = 0

ParseInit ==
  /\ pSrc = <<>>
  /\ pLex = NoLex
  /\ pWith = <<>>
  /\ pParse = NoParse
  /\ pEnv = <<>>
  /\ pEval = NoEval
  /\ pRows = NoRows
  /\ pStage = "src"
  /\ QmIdle
  /\ AppIdle
  /\ LayoutIdle

\* One more character is typed into the expression field.
TypeChar ==
  /\ pStage = "src"
  /\ Len(pSrc) < MaxExprLen
  /\ \E c \in ExprChars :
       /\ ViablePrefix(Append(pSrc, c))
       /\ pSrc' = Append(pSrc, c)
  /\ UNCHANGED <<pLex, pWith, pParse, pEnv, pEval, pRows, pStage>>
  /\ UNCHANGED <<qmState, appState, layoutState>>

RunTokenize ==
  /\ pStage = "src"
  /\ pLex' = tokenize(pSrc)
  /\ pStage' = IF pLex'.ok THEN "tokens" ELSE "lexError"
  /\ UNCHANGED <<pSrc, pWith, pParse, pEnv, pEval, pRows>>
  /\ UNCHANGED <<qmState, appState, layoutState>>

RunToRPN ==
  /\ pStage = "tokens"
  /\ pWith' = InsertImplicit(pLex.tokens)
  /\ pParse' = toRPN(pLex.tokens)
  /\ pStage' = IF pParse'.ok THEN "rpn" ELSE "parseError"
  /\ UNCHANGED <<pSrc, pLex, pEnv, pEval, pRows>>
  /\ UNCHANGED <<qmState, appState, layoutState>>

RunTruthTable ==
  /\ pStage = "rpn"
  /\ pRows' = buildTruthTable(extractVars(pSrc), pParse.rpn)
  /\ pStage' = IF pRows'.ok THEN "table" ELSE "evalError"
  /\ UNCHANGED <<pSrc, pLex, pWith, pParse, pEnv, pEval>>
  /\ UNCHANGED <<qmState, appState, layoutState>>

RunEval ==
  /\ pStage = "rpn"
  /\ pEval' = evalRPN(pParse.rpn, pEnv)
  /\ pStage' = IF pEval'.ok THEN "value" ELSE "evalError"
  /\ UNCHANGED <<pSrc, pLex, pWith, pParse, pEnv, pRows>>
  /\ UNCHANGED <<qmState, appState, layoutState>>

ExprNext == TypeChar \/ RunTokenize \/ RunToRPN \/ RunTruthTable

SpecExpr == ParseInit /\ [][ExprNext]_vars

(***************************************************************************)
(* toRPN on its own: a call with any token sequence.                       *)
(***************************************************************************)
\* The longest token sequence handed to toRPN.
MaxTokens == 4

\* One token per character: the tokens tokenize can emit.
TokenChars == {"0", "1", "A", "(", ")", "!", "'", "&", "+", "^"}

TokOfChar(c) ==
  IF c = "0" THEN NumTok(0)
  ELSE IF c = "1" THEN NumTok(1)
  ELSE IF c = "(" THEN LPTok
  ELSE IF c = ")" THEN RPTok
  ELSE IF c = "!" THEN PrefixNotTok
  ELSE IF c = "'" THEN PostfixNotTok
  ELSE IF BinaryChar(c) THEN BinaryTok(BinaryOpOf(c))
  ELSE VarTok(c)

TokensInit ==
  /\ pSrc = <<>>
  /\ \E n \in 0..MaxTokens : \E cs \in [1..n -> TokenChars] :
       pLex = [ok |-> TRUE, tokens |-> Tup([i \in 1..n |-> TokOfChar(cs[i])]),
               pos |-> 0, ch |-> ""]
  /\ pWith = <<>>
  /\ pParse = NoParse
  /\ pEnv = <<>>
  /\ pEval = NoEval
  /\ pRows = NoRows
  /\ pStage = "tokens"
  /\ QmIdle
  /\ AppIdle
  /\ LayoutIdle

TokensNext == RunToRPN

SpecTokens == TokensInit /\ [][TokensNext]_vars

(***************************************************************************)
(* evalRPN on its own: a call with any postfix sequence and environment.   *)
(***************************************************************************)
\* The longest postfix sequence handed to evalRPN.
MaxRpnLen == 4

RpnChars == {"0", "1", "A", "B", "!", "&", "+", "^"}

\* The environments: B is never defined, A is 0, 1 or not defined.
RpnEnvs == {<<>>} \cup [{"A"} -> {0, 1}]

RpnInit ==
  /\ pSrc = <<>>
  /\ pLex = NoLex
  /\ pWith = <<>>
  /\ \E n \in 0..MaxRpnLen : \E cs \in [1..n -> RpnChars] :
       pParse = [ok |-> TRUE, rpn |-> Tup([i \in 1..n |-> TokOfChar(cs[i])]), error |-> ""]
  /\ pEnv \in RpnEnvs
  /\ pEval = NoEval
  /\ pRows = NoRows
  /\ pStage = "rpn"
  /\ QmIdle
  /\ AppIdle
  /\ LayoutIdle

RpnNext == RunEval

SpecRpn == RpnInit /\ [][RpnNext]_vars

(***************************************************************************)
(* tokenize on its own: a call with any text.                              *)
(***************************************************************************)
\* The longest text handed to tokenize.
MaxLexLen == 3

\* The characters of the text: white space, every character tokenize accepts
\* (a lower and an upper case letter for the letters) and two it does not.
LexChars ==
  {" ", "0", "1", "a", "Z", "(", ")", "!", "~", "&", "*", "+", "|", "^", "'", "#", "2"}

LexInit ==
  /\ \E n \in 0..MaxLexLen : \E cs \in [1..n -> LexChars] : pSrc = Tup(cs)
  /\ pLex = NoLex
  /\ pWith = <<>>
  /\ pParse = NoParse
  /\ pEnv = <<>>
  /\ pEval = NoEval
  /\ pRows = NoRows
  /\ pStage = "src"
  /\ QmIdle
  /\ AppIdle
  /\ LayoutIdle

LexNext == RunTokenize

SpecLex == LexInit /\ [][LexNext]_vars

(***************************************************************************)
(* buildTruthTable on its own: a call with the variables of any text and   *)
(* any postfix sequence.                                                   *)
(***************************************************************************)
\* The most variables of the list handed to buildTruthTable.
MaxTableVars == 3

\* The longest postfix sequence handed to buildTruthTable.
MaxTableRpn == 3

\* The variable lists: extractVars of a text, the letters in alphabetical order.
TableVarLists ==
  {SelectSeq(SubSeq(UpperLetters, 1, MaxTableVars), LAMBDA v : v \in S) :
     S \in SUBSET {UpperLetters[i] : i \in 1..MaxTableVars}}

TableRpnChars == {"0", "1", "A", "B", "C", "!", "&", "+", "^"}

TableInit ==
  /\ pSrc \in TableVarLists
  /\ pLex = NoLex
  /\ pWith = <<>>
  /\ \E n \in 0..MaxTableRpn : \E cs \in [1..n -> TableRpnChars] :
       pParse = [ok |-> TRUE, rpn |-> Tup([i \in 1..n |-> TokOfChar(cs[i])]), error |-> ""]
  /\ pEnv = <<>>
  /\ pEval = NoEval
  /\ pRows = NoRows
  /\ pStage = "rpn"
  /\ QmIdle
  /\ AppIdle
  /\ LayoutIdle

TableNext == RunTruthTable

SpecTable == TableInit /\ [][TableNext]_vars

(***************************************************************************)
(* kmapLayoutForVars on its own: a call with any variable count.           *)
(***************************************************************************)
\* The largest variable count handed to kmapLayoutForVars.
MaxLayoutVars == 64

LayoutInit ==
  /\ layoutVars \in 0..MaxLayoutVars
  /\ layoutOut = NoLayoutCall
  /\ QmIdle
  /\ ParseIdle
  /\ AppIdle

LayoutRun ==
  /\ ~layoutOut.done
  /\ layoutOut' = [done |-> TRUE, layout |-> kmapLayoutForVars(layoutVars)]
  /\ UNCHANGED <<layoutVars, qmState, pState, appState>>

LayoutNext == LayoutRun

SpecLayout == LayoutInit /\ [][LayoutNext]_vars

(***************************************************************************)
(* The application as a state machine: one action per handler.             *)
(***************************************************************************)
\* The cells the user toggles are those of index 0 to MaxClickIndex.
MaxClickIndex == 0

\* The texts typed into the expression field.
AppExprs ==
  << <<>>,
     <<"1", "+", "0">>,
     <<"A">>,
     <<" ", "a", "B", "'", " ">>,
     <<"A", "+", "B", "^", "C">>,
     <<"A", "B", "+", "C", "D">>,
     <<"A", "B", "C", "D", "E">>,
     <<"A", "B", "C", "D", "E", "F", "G", "H", "I">>,
     <<"A", "+">>,
     <<"(", "A">>,
     <<"A", "#">> >>

\* The texts typed into the minterm field: digits, '+', 'd', 'D', parentheses,
\* commas and spaces.
ImportTexts ==
  << <<>>,
     <<"1", ",", "3">>,
     <<"0", ",", "2", " ", "+", "d", "(", "1", ")">>,
     <<"d", "(", "1", ")">>,
     <<"5", ",", "2", "0", "+", " ", "D", "(", "7", " ", "6", ")", "9">>,
     <<"+", "d", "(", "0", ")">> >>

\* What the click handler of btnEval does on the text value of the expression
\* field in mode mode: how far it gets and what it assigns on the way.
\*   "rejected": an early return, nothing assigned;
\*   "parse":    tokenize or toRPN throws after currentVars is assigned;
\*   "table":    buildTruthTable throws after currentRPN is assigned;
\*   "done":     the handler runs to its end.
EvaluateOutcome(value, mode) ==
  LET expr == trim(value)
      vars0 == extractVars(expr)
      lex == tokenize(expr)
      parse == toRPN(lex.tokens)
      table == buildTruthTable(vars0, parse.rpn)
      minFull == LET ones == SelectSeq(table.rows, LAMBDA r : r.y = 1)
                 IN Tup([k \in 1..Len(ones) |-> ones[k].m])
      kVars == SubSeq(vars0, 1, Min(Len(vars0), MAX_VARS))
      fresh == initKMap(kVars)
      painted == paintKMapFromData(fresh.kmap, minFull, <<>>)
      effectiveMinterms ==
        IF mode = "POS"
        THEN SortedSeq((0..(painted.total - 1)) \ {minFull[k] : k \in 1..Len(minFull)})
        ELSE minFull
      nothing == [vars |-> <<>>, rpn |-> <<>>, kmap |-> fresh.kmap, dom |-> <<>>,
                  out |-> NoResultText]
  IN IF expr = <<>> \/ Len(vars0) = 0 \/ Len(vars0) > MAX_TRUTH_TABLE_VARS
     THEN [nothing EXCEPT !.vars = <<>>] @@ [case |-> "rejected"]
     ELSE IF ~lex.ok \/ ~parse.ok
     THEN [nothing EXCEPT !.vars = vars0] @@ [case |-> "parse"]
     ELSE IF ~table.ok
     THEN [nothing EXCEPT !.vars = vars0, !.rpn = parse.rpn] @@ [case |-> "table"]
     ELSE [case |-> "done", vars |-> vars0, rpn |-> parse.rpn, dom |-> fresh.dom,
           kmap |-> IF Len(vars0) <= MAX_VARS THEN painted ELSE fresh.kmap,
           out |-> IF Len(vars0) <= MAX_VARS
                   THEN OutQm(effectiveMinterms, <<>>, kVars, mode)
                   ELSE TooManyVarsText]

\* The click handler of btnEval, on the text of the expression field.
Evaluate ==
  \E k \in 1..Len(AppExprs) :
    \E o \in {EvaluateOutcome(AppExprs[k], currentMode)} :
       /\ UNCHANGED <<currentMode, qmState, pState, layoutState>>
       /\ message' = IF o.case = "done" THEN "success" ELSE "error"
       /\ IF o.case = "rejected"
          THEN UNCHANGED <<currentVars, currentRPN, currentKMap, outSimplified, kmapCells>>
          ELSE IF o.case = "parse"
          THEN /\ currentVars' = o.vars
               /\ outSimplified' = NoResultText
               /\ UNCHANGED <<currentRPN, currentKMap, kmapCells>>
          ELSE IF o.case = "table"
          THEN /\ currentVars' = o.vars
               /\ currentRPN' = o.rpn
               /\ outSimplified' = NoResultText
               /\ UNCHANGED <<currentKMap, kmapCells>>
          ELSE /\ currentVars' = o.vars
               /\ currentRPN' = o.rpn
               /\ currentKMap' = o.kmap
               /\ kmapCells' = o.dom
               /\ outSimplified' = o.out

\* The click handler of a K-map cell: the cell of index idx cycles 0, 1, d, 0.
ClickCell ==
  /\ \E k \in 1..Len(kmapCells) :
       LET idx == kmapCells[k]
           val == currentKMap.cells[idx]
       IN /\ idx <= MaxClickIndex
          /\ currentKMap' =
               [currentKMap EXCEPT !.cells[idx] =
                  IF val = "0" THEN "1" ELSE (IF val = "1" THEN "d" ELSE "0")]
  /\ UNCHANGED <<currentVars, currentRPN, currentMode, outSimplified, kmapCells, message>>
  /\ UNCHANGED <<qmState, pState, layoutState>>

\* The click handler of btnClear.
Clear ==
  /\ currentVars' = <<>>
  /\ currentRPN' = <<>>
  /\ currentKMap' = initKMap(<<>>).kmap
  /\ kmapCells' = initKMap(<<>>).dom
  /\ outSimplified' = NoResultText
  /\ message' = "success"
  /\ UNCHANGED <<currentMode, qmState, pState, layoutState>>

\* The click handler of btnReset.
Reset ==
  /\ currentKMap' = paintKMapFromData(currentKMap, <<>>, <<>>)
  /\ outSimplified' = NoResultText
  /\ message' = "success"
  /\ UNCHANGED <<currentVars, currentRPN, currentMode, kmapCells, qmState, pState, layoutState>>

\* The click handler of btnSimplify.
Simplify ==
  /\ outSimplified' = simplifyFromKMap(currentKMap, currentMode)
  /\ message' = "success"
  /\ UNCHANGED <<currentVars, currentRPN, currentKMap, currentMode, kmapCells>>
  /\ UNCHANGED <<qmState, pState, layoutState>>

\* What the click handler of btnImport does on the text value of the minterm
\* field, on the K-map kmap in mode mode.
\*   "empty":   no text: the K-map is painted blank;
\*   "invalid": no number in the text: nothing assigned;
\*   "done":    the K-map is painted and simplified.
ImportOutcome(value, kmap, mode) ==
  LET txt == trim(value)
      terms == parseTermInput(txt)
      painted == paintKMapFromData(kmap, terms.minterms, terms.dontcares)
  IN IF txt = <<>>
     THEN [case |-> "empty", kmap |-> paintKMapFromData(kmap, <<>>, <<>>), out |-> NoResultText]
     ELSE IF terms.minterms = <<>> /\ terms.dontcares = <<>>
     THEN [case |-> "invalid", kmap |-> kmap, out |-> NoResultText]
     ELSE [case |-> "done", kmap |-> painted, out |-> simplifyFromKMap(painted, mode)]

\* The click handler of btnImport, on the text of the minterm field.
Import ==
  \E t \in 1..Len(ImportTexts) :
    \E o \in {ImportOutcome(ImportTexts[t], currentKMap, currentMode)} :
       /\ UNCHANGED <<currentVars, currentRPN, currentMode, kmapCells, qmState, pState, layoutState>>
       /\ message' = IF o.case = "done" THEN "success" ELSE "error"
       /\ IF o.case = "invalid"
          THEN UNCHANGED <<currentKMap, outSimplified>>
          ELSE /\ currentKMap' = o.kmap
               /\ outSimplified' = o.out

\* The click handlers of modeSOP and modePOS.
SetMode ==
  \E mode \in {"SOP", "POS"} :
    /\ currentMode' = mode
    /\ outSimplified' = IF currentKMap.layout.present
                        THEN simplifyFromKMap(currentKMap, mode)
                        ELSE outSimplified
    /\ UNCHANGED <<currentVars, currentRPN, currentKMap, kmapCells, message>>
    /\ UNCHANGED <<qmState, pState, layoutState>>

Init ==
  /\ AppIdle
  /\ LayoutIdle
  /\ QmIdle
  /\ ParseIdle

Next ==
  \/ Evaluate
  \/ ClickCell
  \/ Clear
  \/ Reset
  \/ Simplify
  \/ Import
  \/ SetMode

Spec == Init /\ [][Next]_vars

(***************************************************************************)
(* The reference semantics of an infix expression, by recursive descent on *)
(* its characters: NOT binds tightest, then AND (written or implied by     *)
(* adjacency), then XOR, then OR; equal operators group to the left.  Each  *)
(* operator returns the value read and the position after it.              *)
(***************************************************************************)
RECURSIVE RefOr(_, _, _), RefOrTail(_, _, _, _), RefXor(_, _, _), RefXorTail(_, _, _, _)
RECURSIVE RefAnd(_, _, _), RefAndTail(_, _, _, _), RefUnary(_, _, _), RefPrimary(_, _, _)

RefPrimary(text, i, env) ==
  IF text[i] = "0" THEN [val |-> FALSE, pos |-> i + 1]
  ELSE IF text[i] = "1" THEN [val |-> TRUE, pos |-> i + 1]
  ELSE IF text[i] = "("
  THEN LET inner == RefOr(text, i + 1, env)
       IN [val |-> inner.val, pos |-> inner.pos + 1]
  ELSE LET k == NegCount(text, i + 1)
           v == env[toUpperCase(text[i])] = 1
       IN [val |-> IF k % 2 = 0 THEN v ELSE ~v, pos |-> i + 1 + k]

RefUnary(text, i, env) ==
  IF text[i] = "!" \/ text[i] = "~"
  THEN LET r == RefUnary(text, i + 1, env) IN [val |-> ~r.val, pos |-> r.pos]
  ELSE RefPrimary(text, i, env)

RefAndTail(text, i, env, left) ==
  IF i <= Len(text) /\ (text[i] = "&" \/ text[i] = "*")
  THEN LET r == RefUnary(text, i + 1, env)
       IN RefAndTail(text, r.pos, env, left /\ r.val)
  ELSE IF i <= Len(text) /\ StartsOperandChar(text[i])
  THEN LET r == RefUnary(text, i, env)
       IN RefAndTail(text, r.pos, env, left /\ r.val)
  ELSE [val |-> left, pos |-> i]

RefAnd(text, i, env) ==
  LET l == RefUnary(text, i, env) IN RefAndTail(text, l.pos, env, l.val)

RefXorTail(text, i, env, left) ==
  IF i <= Len(text) /\ text[i] = "^"
  THEN LET r == RefAnd(text, i + 1, env)
       IN RefXorTail(text, r.pos, env, left # r.val)
  ELSE [val |-> left, pos |-> i]

RefXor(text, i, env) ==
  LET l == RefAnd(text, i, env) IN RefXorTail(text, l.pos, env, l.val)

RefOrTail(text, i, env, left) ==
  IF i <= Len(text) /\ (text[i] = "+" \/ text[i] = "|")
  THEN LET r == RefXor(text, i + 1, env)
       IN RefOrTail(text, r.pos, env, left \/ r.val)
  ELSE [val |-> left, pos |-> i]

RefOr(text, i, env) ==
  LET l == RefXor(text, i, env) IN RefOrTail(text, l.pos, env, l.val)

\* The value, 0 or 1, of a well-formed expression under env.
RefValue(text, env) == IF RefOr(text, 1, env).val THEN 1 ELSE 0

\* C6: for every well-formed infix expression and every environment defining
\* its variables, evalRPN(toRPN(tokenize(expr)), env) is the value of the
\* expression under the reference semantics (NOT, then AND, then XOR, then OR).
C6_PipelineMatchesReference ==
  WellFormed(pSrc) =>
    /\ pStage \notin {"lexError", "parseError", "evalError"}
    /\ pStage = "table" =>
         \A k \in 1..Len(pRows.rows) :
           pRows.rows[k].y = RefValue(pSrc, pRows.rows[k].env)

\* The token kinds of the claims, read off the token records.
EndsOperandTok(t) ==
  t.type \in {"NUM", "VAR", "RP"} \/ (t.type = "OP" /\ t.value = "NOT" /\ t.postfix)

BeginsOperandTok(t) ==
  t.type \in {"NUM", "VAR", "LP"} \/ (t.type = "OP" /\ t.value = "NOT" /\ ~t.postfix)

\* The places of the token sequence after which an AND is due.
DuePlaces(tokens) ==
  {i \in 1..(Len(tokens) - 1) : EndsOperandTok(tokens[i]) /\ BeginsOperandTok(tokens[i + 1])}

\* toRPN has run on the tokens of pLex.
ParsedTokens == pStage \in {"rpn", "parseError", "table", "value", "evalError"}

\* C7: phase 1 of toRPN inserts a synthetic AND (precedence 3, left-associative)
\* between consecutive tokens A and B exactly when A is a Number, Variable,
\* RightParen or postfix NOT and B is a Number, Variable, LeftParen or prefix
\* NOT; nothing else is inserted and the original tokens keep their order.
C7_ImplicitAndPlaces ==
  ParsedTokens =>
    LET tokens == pLex.tokens
        due == DuePlaces(tokens)
        place(i) == i + Cardinality({j \in due : j < i})
    IN /\ Len(pWith) = Len(tokens) + Cardinality(due)
       /\ \A i \in 1..Len(tokens) :
            /\ pWith[place(i)] = tokens[i]
            /\ ~tokens[i].implicit
       /\ \A i \in due :
            /\ pWith[place(i) + 1].type = "OP"
            /\ pWith[place(i) + 1].value = "AND"
            /\ pWith[place(i) + 1].precedence = 3
            /\ pWith[place(i) + 1].associativity = "left"
            /\ ~pWith[place(i) + 1].unary
            /\ pWith[place(i) + 1].implicit

\* The parentheses of a token sequence are balanced: no ')' without an earlier
\* unmatched '(' and no '(' left open.
ParenDepth(tokens, n) ==
  Cardinality({i \in 1..n : tokens[i].type = "LP"})
    - Cardinality({i \in 1..n : tokens[i].type = "RP"})

Balanced(tokens) ==
  /\ \A n \in 1..Len(tokens) : ParenDepth(tokens, n) >= 0
  /\ ParenDepth(tokens, Len(tokens)) = 0

\* C8: toRPN fails with a parse error if and only if the parentheses of its
\* token sequence are unbalanced; when it succeeds its output has no parenthesis.
C8_ParseErrorIffUnbalanced ==
  ParsedTokens =>
    /\ pParse.ok <=> Balanced(pLex.tokens)
    /\ ~pParse.ok <=> pStage = "parseError"
    /\ pParse.ok =>
         \A i \in 1..Len(pParse.rpn) : pParse.rpn[i].type \notin {"LP", "RP"}

\* The replay of a postfix sequence on the stack machine: the number of values
\* on the stack after n tokens, or -1 once a variable is not a key of env or an
\* operator does not find its operands.
RECURSIVE ReplayDepth(_, _, _)
ReplayDepth(rpn, env, n) ==
  IF n = 0 THEN 0
  ELSE
    LET before == ReplayDepth(rpn, env, n - 1)
        t == rpn[n]
    IN IF before = -1 THEN -1
       ELSE IF t.type = "NUM" THEN before + 1
       ELSE IF t.type = "VAR" THEN (IF t.value \in DOMAIN env THEN before + 1 ELSE -1)
       ELSE IF t.type = "OP" /\ t.value = "NOT" THEN (IF before >= 1 THEN before ELSE -1)
       ELSE IF t.type = "OP" THEN (IF before >= 2 THEN before - 1 ELSE -1)
       ELSE before

\* evalRPN has run on the postfix sequence of pParse under pEnv.
Evaluated == pStage \in {"value", "evalError"}

\* C9: evalRPN returns a bit if and only if, replaying rpn on the stack machine,
\* every Variable is a key of env, every NOT finds one value and every binary
\* operator two, and exactly one value remains; otherwise it raises an error.
C9_EvalSucceedsIffReplayable ==
  Evaluated =>
    /\ (pStage = "value" /\ pEval.ok /\ pEval.value \in {0, 1})
         <=> ReplayDepth(pParse.rpn, pEnv, Len(pParse.rpn)) = 1
    /\ pStage = "evalError" <=> ~pEval.ok
    /\ ~pEval.ok => pEval.error # ""

\* C10: for a letter immediately followed by k >= 0 apostrophes, tokenize emits
\* the Variable token followed by exactly one postfix NOT when k is odd and by
\* no NOT when k is even; the operand evaluates to the variable's value when k
\* is even and to its negation when k is odd.
C10_ApostropheParity ==
  \A i \in 1..Len(pSrc) :
    (IsLetter(pSrc[i]) /\ \A j \in (i + 1)..Len(pSrc) : pSrc[j] = "'") =>
      LET k == Len(pSrc) - i
          v == VarTok(toUpperCase(pSrc[i]))
          expected == IF k % 2 = 1 THEN <<v, PostfixNotTok>> ELSE <<v>>
          n == Len(pLex.tokens)
      IN /\ pStage # "src" =>
              /\ pLex.ok
              /\ n >= Len(expected)
              /\ SubSeq(pLex.tokens, n - Len(expected) + 1, n) = expected
              /\ i = 1 => pLex.tokens = expected
         /\ i = 1 => pStage \notin {"lexError", "parseError", "evalError"}
         /\ (i = 1 /\ pStage = "table") =>
              \A r \in 1..Len(pRows.rows) :
                pRows.rows[r].y =
                  (IF k % 2 = 0 THEN pRows.rows[r].env[v.value]
                   ELSE 1 - pRows.rows[r].env[v.value])

(***************************************************************************)
(* Reading a rendered text.  Section 6 of the specification gives the      *)
(* format: SOP is term + term + ..., a term a run of Letter or Letter', or  *)
(* the constant 1 or 0; POS is (sum)(sum)..., a sum Letter + Letter + ...,  *)
(* possibly complemented.  A text that is not of this form reads as -1.     *)
(***************************************************************************)
\* The value of the i-th of n variables under assignment m, first variable
\* most significant.
BitOf(m, i, n) == (m \div (2 ^ (n - i))) % 2

\* The position of letter ch in the variable list, 0 if it is not a variable.
VarIndex(ch, varNames) ==
  IF \E i \in 1..Len(varNames) : varNames[i] = ch
  THEN CHOOSE i \in 1..Len(varNames) : varNames[i] = ch
  ELSE 0

\* The pieces of text between the separators " + ".
Pieces(text) ==
  LET occ == SelectSeq([i \in 1..Len(text) |-> i],
                       LAMBDA i : /\ i + 2 <= Len(text)
                                  /\ text[i] = " " /\ text[i + 1] = "+" /\ text[i + 2] = " ")
  IN Tup([k \in 1..(Len(occ) + 1) |->
            SubSeq(text,
                   IF k = 1 THEN 1 ELSE occ[k - 1] + 3,
                   IF k <= Len(occ) THEN occ[k] - 1 ELSE Len(text))])

\* A run of literals: letters of the variable list, each optionally followed by
\* one apostrophe.
IsLiteralRun(piece, varNames) ==
  /\ piece # <<>>
  /\ \A i \in 1..Len(piece) :
       \/ VarIndex(piece[i], varNames) # 0
       \/ /\ piece[i] = "'"
          /\ i > 1
          /\ VarIndex(piece[i - 1], varNames) # 0

\* The value of the literal that starts at position i of piece.
LiteralValue(piece, i, varNames, m) ==
  LET b == BitOf(m, VarIndex(piece[i], varNames), Len(varNames))
  IN IF i < Len(piece) /\ piece[i + 1] = "'" THEN 1 - b ELSE b

LetterPositions(piece) == {i \in 1..Len(piece) : piece[i] # "'"}

\* A product term of an SOP text.
ProductValue(piece, varNames, m) ==
  IF piece = <<"1">> THEN 1
  ELSE IF piece = <<"0">> THEN 0
  ELSE IF ~IsLiteralRun(piece, varNames) THEN -1
  ELSE IF \A i \in LetterPositions(piece) : LiteralValue(piece, i, varNames, m) = 1
       THEN 1 ELSE 0

\* The text read as a sum of products.
ReadSOP(text, varNames, m) ==
  LET terms == Pieces(text)
      vals == {ProductValue(terms[k], varNames, m) : k \in 1..Len(terms)}
  IN IF -1 \in vals THEN -1 ELSE IF 1 \in vals THEN 1 ELSE 0

\* A sum of a POS text: literals separated by " + ".
SumValue(inner, varNames, m) ==
  LET lits == Pieces(inner)
      ok == \A k \in 1..Len(lits) :
              /\ IsLiteralRun(lits[k], varNames)
              /\ Cardinality(LetterPositions(lits[k])) = 1
  IN IF ~ok THEN -1
     ELSE IF \E k \in 1..Len(lits) : LiteralValue(lits[k], 1, varNames, m) = 1
          THEN 1 ELSE 0

\* The text read as a product of sums: parenthesized sums and constants, side by side.
ReadPOS(text, varNames, m) ==
  LET idx == [i \in 1..Len(text) |-> i]
      opens == SelectSeq(idx, LAMBDA i : text[i] = "(")
      closes == SelectSeq(idx, LAMBDA i : text[i] = ")")
      paired == /\ Len(opens) = Len(closes)
                /\ \A k \in 1..Len(opens) :
                     /\ opens[k] < closes[k]
                     /\ k < Len(opens) => closes[k] < opens[k + 1]
      inside(i) == \E k \in 1..Len(opens) : opens[k] <= i /\ i <= closes[k]
      consts == {text[i] : i \in {j \in 1..Len(text) : ~inside(j)}}
      sums == {SumValue(SubSeq(text, opens[k] + 1, closes[k] - 1), varNames, m) :
                 k \in 1..Len(opens)}
  IN IF ~paired \/ text = <<>> \/ ~(consts \subseteq {"0", "1"}) \/ -1 \in sums THEN -1
     ELSE IF 0 \in sums \/ "0" \in consts THEN 0 ELSE 1

\* The indices 0 .. 2^n - 1 of the truth table over the variables of the call.
AllIndices == 0..(2 ^ Len(qmVars) - 1)

SeqSet(s) == {s[i] : i \in 1..Len(s)}

\* C1: for every variable count n <= 4 and every minterm set M without
\* don't-cares, the text qmSimplify returns in SOP mode, read as a sum of
\* products over the variables, is 1 on exactly the assignments whose index is in M.
C1_SopRoundTrip ==
  (qmOut.done /\ qmMode = "SOP" /\ qmDontcares = <<>>) =>
    \A m \in AllIndices :
      ReadSOP(qmOut.result, qmVars, m) = (IF m \in SeqSet(qmMinterms) THEN 1 ELSE 0)

\* C2: for every variable count n <= 4 and every set M, qmSimplify in POS mode
\* called with the complement of M as its minterms and no don't-cares returns a
\* text that, read as a product of sums, is 1 on exactly the assignments in M.
C2_PosRoundTrip ==
  (qmOut.done /\ qmMode = "POS" /\ qmDontcares = <<>>) =>
    \A m \in AllIndices :
      ReadPOS(qmOut.result, qmVars, m) = (IF m \in SeqSet(qmMinterms) THEN 0 ELSE 1)

\* An implicant, as a pattern of 0, 1 and -, covers the index m of n variables.
ImplicantCovers(p, m, n) ==
  /\ Len(p) = n
  /\ \A i \in 1..n : p[i] = "-" \/ p[i] = (IF BitOf(m, i, n) = 1 THEN "1" ELSE "0")

\* C3: for n in 1..4 and disjoint sets M (minterms) and D (don't-cares), the
\* implicants qmSimplify returns cover every index of M and no index outside
\* M and D.
C3_CoverWithinMintermsAndDontCares ==
  (qmOut.done /\ Len(qmVars) >= 1) =>
    \A m \in AllIndices :
      LET covered == \E k \in 1..Len(qmOut.implicants) :
                       ImplicantCovers(qmOut.implicants[k], m, Len(qmVars))
      IN /\ m \in SeqSet(qmMinterms) => covered
         /\ m \notin (SeqSet(qmMinterms) \cup SeqSet(qmDontcares)) => ~covered

\* A call on four variables whose result uses a don't-care to widen an implicant.
C3_Witness ==
  /\ qmOut.done
  /\ Len(qmVars) = 4
  /\ qmMinterms # <<>>
  /\ \E d \in SeqSet(qmDontcares) : \E k \in 1..Len(qmOut.implicants) :
       ImplicantCovers(qmOut.implicants[k], d, Len(qmVars))
  /\ \E m \in AllIndices : m \notin (SeqSet(qmMinterms) \cup SeqSet(qmDontcares))

\* OR, XOR and an implicit AND in one expression, evaluated on every row.
C6_Witness ==
  /\ pStage = "table"
  /\ pSrc = <<"A", "+", "1", "^", "A", "A">>
  /\ Len(pRows.rows) = 2

\* Two ANDs inserted, and a place between two tokens left alone.
C7_Witness ==
  /\ ParsedTokens
  /\ Len(pLex.tokens) = 4
  /\ Cardinality(DuePlaces(pLex.tokens)) = 2
  /\ Len(pWith) = 6

\* As many '(' as ')' and still unbalanced: the parser has refused the tokens.
C8_Witness ==
  /\ pStage = "parseError"
  /\ pLex.tokens # <<>>
  /\ ParenDepth(pLex.tokens, Len(pLex.tokens)) = 0
  /\ ~Balanced(pLex.tokens)

\* A postfix sequence with a variable and a binary operator that evaluates to 1.
C9_Witness ==
  /\ pStage = "value"
  /\ pEval.value = 1
  /\ \E i \in 1..Len(pParse.rpn) : pParse.rpn[i].type = "VAR"
  /\ \E i \in 1..Len(pParse.rpn) :
       pParse.rpn[i].type = "OP" /\ pParse.rpn[i].value # "NOT"

\* A letter with three apostrophes, evaluated on both rows.
C10_Witness ==
  /\ pStage = "table"
  /\ pSrc = <<"A", "'", "'", "'">>
  /\ pLex.tokens = <<VarTok("A"), PostfixNotTok>>

\* The number of the n bits in which the indices a and b differ.
BitsApart(a, b, n) == Cardinality({i \in 1..n : BitOf(a, i, n) # BitOf(b, i, n)})

\* C4: for every n in 1..4, two distinct cells of the layout of
\* kmapLayoutForVars(n) that are neighbours in a row or in a column, the last
\* position wrapping around to the first, have indices that differ in exactly
\* one bit.
C4_GrayAdjacency ==
  currentKMap.n \in 1..4 =>
    LET layout == currentKMap.layout
        R == Len(layout.rows)
        C == Len(layout.cols)
        apart(p, q) == p # q => BitsApart(layout.index[p], layout.index[q], currentKMap.n) = 1
    IN /\ layout.present
       /\ \A r \in 0..(R - 1) : \A c \in 0..(C - 1) :
            /\ apart(<<r, c>>, <<r, (c + 1) % C>>)
            /\ apart(<<r, c>>, <<(r + 1) % R, c>>)

\* The K-map of four variables is on screen: four rows and four columns.
C4_Witness ==
  /\ currentKMap.n = 4
  /\ currentKMap.layout.present
  /\ Len(currentKMap.layout.rows) = 4
  /\ Len(currentKMap.layout.cols) = 4
  /\ Len(kmapCells) = 16

\* C5: for every n in 1..4, layout.index of kmapLayoutForVars(n), over every
\* row position below rows.length and column position below cols.length,
\* takes every value of 0 .. 2^n - 1 exactly once.
C5_IndexBijection ==
  currentKMap.n \in 1..4 =>
    LET layout == currentKMap.layout
        cells == Positions(Len(layout.rows), Len(layout.cols))
    IN /\ layout.present
       /\ {layout.index[p] : p \in cells} = 0..(2 ^ currentKMap.n - 1)
       /\ \A p \in cells : \A q \in cells : layout.index[p] = layout.index[q] => p = q

\* The K-map of three variables is on screen: two rows of four cells.
C5_Witness ==
  /\ currentKMap.n = 3
  /\ currentKMap.layout.present
  /\ Len(currentKMap.layout.rows) = 2
  /\ Len(currentKMap.layout.cols) = 4
  /\ currentKMap.total = 8

LetterChars ==
  {UpperLetters[i] : i \in 1..Len(UpperLetters)}
    \cup {LowerLetters[i] : i \in 1..Len(LowerLetters)}

\* The characters tokenize accepts wherever they stand.
AcceptedChars == {"0", "1", "(", ")", "!", "~", "&", "*", "+", "|", "^"} \cup LetterChars

\* Position i of src holds an apostrophe of a run that immediately follows a letter.
InRunAfterLetter(src, i) ==
  /\ src[i] = "'"
  /\ \E j \in 1..(i - 1) :
       /\ src[j] \in LetterChars
       /\ \A k \in (j + 1)..i : src[k] = "'"

\* The positions of src holding a character tokenize does not recognize.
Unrecognized(src) ==
  {i \in 1..Len(src) : src[i] \notin AcceptedChars /\ ~InRunAfterLetter(src, i)}

\* C11: tokenize fails if and only if the text, white space removed, holds a
\* character that is not 0, 1, a letter, a parenthesis, one of ! ~ & * + | ^, or
\* an apostrophe of a run immediately following a letter; the error names the
\* first such character and its 0-based position, and no token is returned.
C11_LexErrorIffUnrecognized ==
  pStage \in {"tokens", "lexError"} =>
    LET src == StripSpace(pSrc)
        bad == Unrecognized(src)
    IN /\ pLex.ok <=> bad = {}
       /\ ~pLex.ok =>
            LET first == CHOOSE i \in bad : \A j \in bad : i <= j
            IN /\ pLex.pos = first - 1
               /\ pLex.ch = src[first]
               /\ pLex.tokens = <<>>

\* tokenize has failed on an apostrophe that follows no letter, in a text with
\* white space before it and a second unrecognized character after it.
C11_Witness ==
  /\ pStage = "lexError"
  /\ pLex.ch = "'"
  /\ pLex.pos = 0
  /\ pSrc[1] = " "
  /\ Cardinality(Unrecognized(StripSpace(pSrc))) = 2

\* The number whose binary digits, most significant first, are the values env
\* gives to the variables of varList from position i on.
RECURSIVE EnvNumber(_, _, _)
EnvNumber(varList, env, i) ==
  IF i > Len(varList) THEN 0
  ELSE env[varList[i]] * 2 ^ (Len(varList) - i) + EnvNumber(varList, env, i + 1)

\* C12: for a list of n <= 8 distinct variables and a postfix expression that
\* evaluates without error, buildTruthTable returns exactly 2^n rows; the row at
\* position m has index m, its environment gives the i-th variable bit n-1-i of
\* m (the first variable most significant), and its output is evalRPN of the
\* expression under that environment.
C12_TruthTableRows ==
  pStage \in {"table", "evalError"} =>
    LET varList == extractVars(pSrc)
        n == Len(varList)
        varSet == {varList[i] : i \in 1..n}
    IN (n <= 8 /\ \A env \in [varSet -> {0, 1}] : evalRPN(pParse.rpn, env).ok) =>
         /\ pRows.ok
         /\ Len(pRows.rows) = 2 ^ n
         /\ \A m \in 0..(2 ^ n - 1) :
              LET row == pRows.rows[m + 1]
              IN /\ row.m = m
                 /\ DOMAIN row.env = varSet
                 /\ \A v \in varSet : row.env[v] \in {0, 1}
                 /\ EnvNumber(varList, row.env, 1) = m
                 /\ row.y = evalRPN(pParse.rpn, row.env).value

\* The table of an expression over three variables is built: eight rows, with
\* both outputs among them.
C12_Witness ==
  /\ pStage = "table"
  /\ Len(extractVars(pSrc)) = 3
  /\ Len(pRows.rows) = 8
  /\ \E j \in 1..8 : pRows.rows[j].y = 1
  /\ \E j \in 1..8 : pRows.rows[j].y = 0

\* C13: kmapLayoutForVars(n) returns a layout exactly when n is 1, 2, 3 or 4,
\* and null (no layout) for every other n, every n > 4 among them.
C13_LayoutOnlyForOneToFour ==
  layoutOut.done =>
    /\ layoutOut.layout.present <=> layoutVars \in 1..4
    /\ layoutVars \notin 1..4 => layoutOut.layout = NoLayout
    /\ layoutVars \in 1..4 =>
         Len(layoutOut.layout.rows) * Len(layoutOut.layout.cols) = 2 ^ layoutVars

\* kmapLayoutForVars has returned null for five variables.
C13_Witness ==
  /\ layoutOut.done
  /\ layoutVars = 5
  /\ ~layoutOut.layout.present

\* C14: whenever the minterm list passed to qmSimplify is empty, with or
\* without don't-cares and for any variable list, the empty one included, the
\* returned implicant list is empty and the text is "0" in SOP mode and "1" in
\* POS mode.
C14_NoMintermsConstantText ==
  (qmOut.done /\ qmMinterms = <<>>) =>
    /\ qmOut.implicants = <<>>
    /\ qmMode = "SOP" => qmOut.result = <<"0">>
    /\ qmMode = "POS" => qmOut.result = <<"1">>

\* A call in POS mode without minterms whose don't-cares combine into a prime
\* implicant.
C14_Witness ==
  /\ qmOut.done
  /\ qmMinterms = <<>>
  /\ Len(qmDontcares) >= 2
  /\ qmMode = "POS"
  /\ \E k \in 1..Len(qmOut.primeList) : \E i \in 1..Len(qmVars) : qmOut.primeList[k][i] = "-"

\* The pattern p, read at its own width, covers the index m.
CoversIndex(p, m) == ImplicantCovers(p, m, Len(p))

\* The positions of the prime-implicant list whose pattern covers the index m.
PrimesCovering(m) ==
  {k \in 1..Len(qmOut.primeList) : CoversIndex(qmOut.primeList[k], m)}

\* C15: in qmSimplify, for every true minterm covered by exactly one implicant
\* of the prime-implicant list, that implicant is in the returned chosen set.
C15_EssentialsChosen ==
  qmOut.done =>
    \A m \in SeqSet(qmMinterms) :
      Cardinality(PrimesCovering(m)) = 1 =>
        \A k \in PrimesCovering(m) : qmOut.primeList[k] \in SeqSet(qmOut.implicants)

\* A call on four variables with a minterm only one prime implicant covers, a
\* minterm several cover, and a prime implicant left out of the result.
C15_Witness ==
  /\ qmOut.done
  /\ Len(qmVars) = 4
  /\ \E m \in SeqSet(qmMinterms) : Cardinality(PrimesCovering(m)) = 1
  /\ \E m \in SeqSet(qmMinterms) : Cardinality(PrimesCovering(m)) >= 2
  /\ Len(qmOut.implicants) < Len(qmOut.primeList)

\* The position in the prime-implicant list of the k-th returned implicant.
ChosenIndex(k) ==
  CHOOSE j \in 1..Len(qmOut.primeList) : qmOut.primeList[j] = qmOut.implicants[k]

\* The positions of the returned implicants, in the order they were chosen.
ChosenIndices == Tup([k \in 1..Len(qmOut.implicants) |-> ChosenIndex(k)])

\* For every minterm of the call, the prime implicants covering it.
MintermCovers == Tup([i \in 1..Len(qmMinterms) |-> PrimesCovering(qmMinterms[i])])

\* The prime implicants that are the only cover of some minterm.
EssentialIndices ==
  {j \in 1..Len(qmOut.primeList) : \E m \in SeqSet(qmMinterms) : PrimesCovering(m) = {j}}

\* With the minterms' covers cov and the choices idx: the t-th choice is a not
\* yet chosen implicant covering the most uncovered minterms, the lowest in the
\* list among those covering as many.
GreedyStepRight(t, cov, idx) ==
  \A before \in {{idx[k] : k \in 1..(t - 1)}} :
    \A uncovered \in {{i \in 1..Len(cov) : cov[i] \cap before = {}}} :
      \A cand \in {(1..Len(qmOut.primeList)) \ before} :
        \A best \in {Cardinality({i \in uncovered : idx[t] \in cov[i]})} :
          /\ uncovered # {}
          /\ idx[t] \in cand
          /\ \A j \in cand : Cardinality({i \in uncovered : j \in cov[i]}) <= best
          /\ \A j \in cand :
               Cardinality({i \in uncovered : j \in cov[i]}) = best => idx[t] <= j

\* C16: at every step of the greedy covering loop of qmSimplify, the implicant
\* added to the chosen set is a not yet chosen implicant covering the largest
\* number of currently uncovered minterms, and among the not yet chosen
\* implicants reaching that number it has the lowest index in the
\* prime-implicant list.
C16_GreedyLowestIndexOfBest ==
  qmOut.done =>
    \A cov \in {MintermCovers} : \A idx \in {ChosenIndices} :
      \A ess \in {{j \in 1..Len(qmOut.primeList) : \E i \in 1..Len(cov) : cov[i] = {j}}} :
        /\ {idx[k] : k \in 1..Cardinality(ess)} = ess
        /\ \A t \in (Cardinality(ess) + 1)..Len(idx) : GreedyStepRight(t, cov, idx)

\* A call on four variables without essential prime implicant, whose first
\* greedy step has several implicants covering the largest number of minterms
\* and whose loop takes three steps or more.
C16_Witness ==
  /\ qmOut.done
  /\ Len(qmVars) = 4
  /\ EssentialIndices = {}
  /\ Len(qmOut.implicants) >= 3
  /\ \E j \in 1..Len(qmOut.primeList) :
       /\ j # ChosenIndex(1)
       /\ Cardinality({m \in SeqSet(qmMinterms) : j \in PrimesCovering(m)})
            = Cardinality({m \in SeqSet(qmMinterms) : ChosenIndex(1) \in PrimesCovering(m)})

\* C17: after the deduplication step of every combination round of qmSimplify,
\* no group of new implicants holds two entries with the same bit pattern and
\* the same set of originating minterms.
C17_NoDuplicateAfterDedup ==
  qmOut.done =>
    \A r \in 1..Len(qmOut.rounds) : \A kk \in 1..Len(qmOut.rounds[r]) :
      LET group == qmOut.rounds[r][kk]
      IN \A i \in 1..Len(group) : \A j \in 1..Len(group) :
           (group[i].bin = group[j].bin /\ SeqSet(group[i].from) = SeqSet(group[j].from))
             => i = j

\* The symbols of a pattern, numbered 0, 1, 2.
PatternSymbols == <<"0", "1", "-">>

\* The c-th pattern over n variables, c from 0 to 3^n - 1: its i-th symbol is
\* the digit of weight 3^(n-i) of c.
PatternDigit(n, c, i) == (c \div (3 ^ (n - i))) % 3

PatternOf(n, c) == Tup([i \in 1..n |-> PatternSymbols[PatternDigit(n, c, i) + 1]])

\* For every n and every pattern over n variables (the c-th at position c + 1):
\* the pattern, the indices it covers, and the positions of the patterns
\* obtained from it by replacing one of its non-dash symbols by a dash.
PatternTable ==
  Tup([n \in 1..MAX_VARS |->
         Tup([k \in 1..(3 ^ n) |->
                [pat |-> PatternOf(n, k - 1),
                 cover |-> {m \in 0..(2 ^ n - 1) : ImplicantCovers(PatternOf(n, k - 1), m, n)},
                 wider |-> {k + (2 - PatternDigit(n, k - 1, i)) * 3 ^ (n - i) :
                              i \in {j \in 1..n : PatternDigit(n, k - 1, j) # 2}}]])])

\* C18: for every n in 1..4 and all minterm and don't-care sets within
\* [0, 2^n), the prime-implicant list of qmSimplify holds exactly the prime
\* implicants of M and D together: each listed pattern covers only indices of M
\* and D, replacing any one of its non-dash symbols by a dash gives a pattern
\* covering an index outside them, every pattern with these two properties is
\* listed, and no pattern is listed twice.
C18_PrimeListExact ==
  (qmOut.done /\ Len(qmVars) >= 1) =>
    \A terms \in {SeqSet(qmMinterms) \cup SeqSet(qmDontcares)} :
      \A table \in {PatternTable[Len(qmVars)]} :
        \A within \in {{k \in 1..Len(table) : table[k].cover \subseteq terms}} :
          /\ Cardinality(SeqSet(qmOut.primeList)) = Len(qmOut.primeList)
          /\ SeqSet(qmOut.primeList)
               = {table[k].pat : k \in {j \in within : table[j].wider \cap within = {}}}

\* A call on three variables with don't-cares whose prime-implicant list holds
\* a pattern with two dashes, a pattern with one dash, and an implicant the
\* result leaves out.
C18_Witness ==
  /\ qmOut.done
  /\ Len(qmVars) = 3
  /\ qmDontcares # <<>>
  /\ \E k \in 1..Len(qmOut.primeList) :
       Cardinality({i \in 1..3 : qmOut.primeList[k][i] = "-"}) = 2
  /\ \E k \in 1..Len(qmOut.primeList) :
       Cardinality({i \in 1..3 : qmOut.primeList[k][i] = "-"}) = 1
  /\ Len(qmOut.implicants) < Len(qmOut.primeList)

\* C19: for every variable list of length n from 0 to 4 and all minterm and
\* don't-care indices within [0, 2^n), every implicant qmSimplify returns is a
\* string over 0, 1 and - of exactly n symbols, one per variable.
C19_ImplicantWidth ==
  qmOut.done =>
    \A k \in 1..Len(qmOut.implicants) :
      /\ Len(qmOut.implicants[k]) = Len(qmVars)
      /\ \A i \in 1..Len(qmOut.implicants[k]) : qmOut.implicants[k][i] \in {"0", "1", "-"}

\* The number of items a round of the combination loop has created.
RoundSize(round) == Len(Flatten(round))

\* C20: for every n in 1..4 and all minterm and don't-care sets within
\* [0, 2^n), qmSimplify terminates: the combination loop makes at most n + 1
\* rounds, the last of them the round in which no pair combines, and the greedy
\* loop ends having added at most as many implicants as the prime-implicant
\* list holds.
C20_LoopsBounded ==
  (qmOut.done /\ Len(qmVars) >= 1) =>
    /\ Len(qmOut.rounds) <= Len(qmVars) + 1
    /\ \A r \in 1..Len(qmOut.rounds) :
         (RoundSize(qmOut.rounds[r]) = 0) <=> (r = Len(qmOut.rounds))
    /\ Len(qmOut.implicants) <= Len(qmOut.primeList)
    /\ Cardinality(SeqSet(qmOut.implicants)) = Len(qmOut.implicants)

\* A call on three variables whose combination loop takes three rounds and
\* whose greedy loop adds an implicant to the essential ones and leaves one out.
C20_Witness ==
  /\ qmOut.done
  /\ Len(qmVars) = 3
  /\ Len(qmOut.rounds) = 3
  /\ Len(qmOut.implicants) > Cardinality(EssentialIndices)
  /\ Len(qmOut.implicants) < Len(qmOut.primeList)

\* A step of the Evaluate handler in which tokenize, toRPN or evalRPN raises an
\* error: the handler ends in its catch block.
EvaluateRaises ==
  /\ \E k \in 1..Len(AppExprs) :
       \E o \in {EvaluateOutcome(AppExprs[k], currentMode)} :
         /\ o.case \in {"parse", "table"}
         /\ currentVars' = o.vars
  /\ message' = "error"
  /\ Evaluate

\* C21: when the Evaluate handler fails because tokenize, toRPN or evalRPN
\* raises an error, the application state is as before: the current variable
\* list, the current postfix expression and the K-map (its variables, layout
\* and cell values) are unchanged.
C21_FailedEvaluateLeavesState ==
  [][EvaluateRaises => UNCHANGED <<currentVars, currentRPN, currentKMap>>]_vars

\* The K-map state is well formed: at most four variables, total = 2^n, one
\* cell per index below total, every cell 0, 1 or d, and no layout exactly
\* when there is no variable.
KMapWellFormed ==
  /\ currentKMap.n \in 0..4
  /\ currentKMap.total = 2 ^ currentKMap.n
  /\ DOMAIN currentKMap.cells = 0..(currentKMap.total - 1)
  /\ \A i \in DOMAIN currentKMap.cells : currentKMap.cells[i] \in {"0", "1", "d"}
  /\ ~currentKMap.layout.present <=> currentKMap.n = 0

\* The value after 0, 1 and d in the cycle of a cell.
NextInCycle(val) == IF val = "0" THEN "1" ELSE IF val = "1" THEN "d" ELSE "0"

\* The step changes one cell of the K-map, to the next value of its cycle, and
\* nothing else of the K-map.
OneCellCycled ==
  /\ DOMAIN currentKMap'.cells = DOMAIN currentKMap.cells
  /\ \E idx \in DOMAIN currentKMap.cells :
       /\ currentKMap'.cells[idx] = NextInCycle(currentKMap.cells[idx])
       /\ \A j \in DOMAIN currentKMap.cells \ {idx} :
            currentKMap'.cells[j] = currentKMap.cells[j]
  /\ currentKMap'.vars = currentKMap.vars
  /\ currentKMap'.n = currentKMap.n
  /\ currentKMap'.total = currentKMap.total
  /\ currentKMap'.layout = currentKMap.layout

\* C22: after initialization and after any sequence of the actions Evaluate,
\* Clear, Reset, Import, cell click, Simplify and mode toggle, the K-map has at
\* most 4 variables, total = 2^n, exactly total cells, every cell 0, 1 or d,
\* and no layout exactly when n is 0; a cell click changes only the clicked
\* cell, cycling its value 0 to 1 to d to 0.
C22_KMapStateInvariant ==
  /\ []KMapWellFormed
  /\ [][ClickCell => OneCellCycled]_vars

\* A K-map of two variables painted by an import, 1 1 d 0 from the text
\* "0,2 +d(1)", whose first cell has then been clicked to d.
C22_Witness ==
  /\ currentKMap.n = 2
  /\ currentKMap.layout.present
  /\ currentKMap.cells[0] = "d"
  /\ currentKMap.cells[1] = "d"
  /\ currentKMap.cells[2] = "1"
  /\ currentKMap.cells[3] = "0"

====
